---------------------------- MODULE Spec2Model ----------------------------
(***************************************************************************)
(* Model of the Auto Deploy Agent orchestrator (src/main.py) and of the    *)
(* components it sequences: detect_project_type, recommend_platform,       *)
(* check_paid_platform_confirmation, install_cli, create_required_files,   *)
(* the git steps, build_project and the deployment adapters.               *)
(*                                                                         *)
(* Every external command and every prompt is one step of the model; the   *)
(* outcome of the command or the answer of the user is chosen by the       *)
(* environment.  main.py line 182 and deployer.py line 368 are indented    *)
(* one level too deep; the model follows the statement order of the text.  *)
(***************************************************************************)
EXTENDS Integers, Sequences, FiniteSets, TLC

VARIABLES
    pc,            \* position in main() and in the function it is executing
    ollama,        \* OLLAMA_AVAILABLE (detector.py / recommender.py)
    files,         \* names of the files present in PROJECT_DIR
    pkg,           \* content of package.json: [ok, dependencies, devDependencies]
    arg,           \* argument of a direct call of recommend_platform
    project_type,  \* main(): project_type
    rec,           \* main(): rec
    platform,      \* main(): platform
    trace,         \* stages of main() begun so far, in order
    gates,         \* stage -> "notrun" | "passed" | "failed"
    cmds,          \* external commands run so far (subprocess.run), in order
    prompts,       \* input() prompts shown so far, in order
    git_calls,     \* calls of core.git_handler functions so far, in order
    created,       \* files written by this run
    via,           \* which path produced project_type / rec: "ai" | "fallback"
    success,       \* main(): success
    exit_status,   \* exit status of the process, -1 while it runs
    stdout,        \* captured standard output of the deploy command, a sequence of lines
    live_urls,     \* the lines a deployment adapter printed as the live URL, in order
    netlify,       \* .netlify/state.json, NETLIFY_SITE_ID and NETLIFY_AUTH_TOKEN
    observed,      \* what install_cli and build_project saw: each command they ran
                   \* with its result, and the test for node_modules
    retval         \* the value a helper function called on its own returned

vars == <<pc, ollama, files, pkg, arg, project_type, rec, platform, trace, gates,
          cmds, prompts, git_calls, created, via, success, exit_status,
          stdout, live_urls, netlify, observed, retval>>

-----------------------------------------------------------------------------
(* Bounds *)

\* invalid answers the user may give to the paid-platform prompt
MaxInvalidAnswers == 1

\* lines a deploy command may print
MaxOutputLines == 2

-----------------------------------------------------------------------------
(* config.py *)

ProjectTypes == {"nextjs", "vite", "react", "static", "python-flask", "unknown"}

\* a tag outside the enumeration, as a text-generation backend may answer
OtherTag == "django"

AllTags == ProjectTypes \cup {OtherTag}

SupportedPlatforms ==
    {"Netlify", "Vercel", "GitHub Pages", "Cloudflare Pages", "Render"}

\* PAID_PLATFORMS with Vercel among the paid platforms
PAID_PLATFORMS_Vercel ==
    {"Fly.io", "Heroku", "Railway", "AWS", "GCP", "Azure", "DigitalOcean", "Vercel"}

PAID_PLATFORMS ==
    {"Fly.io", "Heroku", "Railway", "AWS", "GCP", "Azure", "DigitalOcean"}

VercelSteps == <<"Install Vercel CLI: npm install -g vercel",
                 "Login to Vercel: vercel login",
                 "Deploy: vercel --prod">>

NetlifySteps == <<"Install Netlify CLI: npm install -g netlify-cli",
                  "Login to Netlify: netlify login",
                  "Deploy: netlify deploy --prod">>

GitHubPagesSteps == <<"Ensure your site is in a GitHub repository",
                      "Go to repository Settings > Pages",
                      "Select source branch and folder",
                      "Push to GitHub to deploy">>

RECOMMENDATIONS ==
    ("nextjs" :> [platform |-> "Vercel",
        reason |-> "Vercel is the creators of Next.js and provides the best hosting experience",
        setup_steps |-> VercelSteps])
 @@ ("vite" :> [platform |-> "Netlify",
        reason |-> "Netlify provides excellent support for modern static sites built with Vite",
        setup_steps |-> NetlifySteps])
 @@ ("react" :> [platform |-> "Netlify",
        reason |-> "Netlify offers great React support with automatic builds and deployments",
        setup_steps |-> NetlifySteps])
 @@ ("static" :> [platform |-> "GitHub Pages",
        reason |-> "GitHub Pages is perfect for static sites with no build requirements",
        setup_steps |-> GitHubPagesSteps])
 @@ ("python-flask" :> [platform |-> "Vercel",
        reason |-> "Vercel provides excellent support for Python web applications with easy deployment",
        setup_steps |-> VercelSteps])

\* CLI_MAP with an entry for Render
CLI_MAP_Render ==
    ("Netlify" :> [cmd |-> "netlify", install |-> "npm install -g netlify-cli",
                   auto_install |-> TRUE])
 @@ ("Vercel" :> [cmd |-> "vercel", install |-> "npm install -g vercel",
                  auto_install |-> TRUE])
 @@ ("Cloudflare Pages" :> [cmd |-> "wrangler", install |-> "npm install -g wrangler",
                            auto_install |-> TRUE])
 @@ ("GitHub Pages" :> [cmd |-> "git", install |-> "https://git-scm.com/downloads",
                        auto_install |-> FALSE])
 @@ ("Render" :> [cmd |-> "render", install |-> "npm install -g render",
                  auto_install |-> TRUE])

CLI_MAP ==
    ("Netlify" :> [cmd |-> "netlify", install |-> "npm install -g netlify-cli",
                   auto_install |-> TRUE])
 @@ ("Vercel" :> [cmd |-> "vercel", install |-> "npm install -g vercel",
                  auto_install |-> TRUE])
 @@ ("Cloudflare Pages" :> [cmd |-> "wrangler", install |-> "npm install -g wrangler",
                            auto_install |-> TRUE])
 @@ ("GitHub Pages" :> [cmd |-> "git", install |-> "https://git-scm.com/downloads",
                        auto_install |-> FALSE])

-----------------------------------------------------------------------------
(* The environment *)

\* outcome of subprocess.run: exit code 0, nonzero exit code, TimeoutExpired
\* (or another exception, such as a spawn error: every handler of the one is
\* followed by a handler of the other that returns the same)
CmdOutcomes == {"ok", "fail", "timeout"}

\* dependency names a manifest may list
DepNames == {"next", "vite", "react"}

\* package.json: unparseable (json.JSONDecodeError), or an object with the
\* two dependency tables (an absent table reads as the empty one: pkg.get(k, {}))
Manifests ==
    {[ok |-> FALSE, dependencies |-> {}, devDependencies |-> {}]}
    \cup [ok : {TRUE}, dependencies : SUBSET DepNames, devDependencies : SUBSET DepNames]

NoManifest == [ok |-> FALSE, dependencies |-> {}, devDependencies |-> {}]

\* the files the classifier looks at
ListingFiles == {"package.json", "index.html", "requirements.txt"}

\* answer of the text-generation backend to the detection prompt: no usable
\* answer (exception, timeout, non-JSON, missing key), or {"type", "reason"}
DetectResponses ==
    {[ok |-> FALSE, type |-> "unknown"]} \cup [ok : {TRUE}, type : AllTags]

\* platforms a text-generation backend may name
AIPlatforms == SupportedPlatforms \cup {"Heroku"}

AISteps == <<"step1", "step2">>

\* answer of the backend to the recommendation prompt: no usable answer,
\* JSON without the expected keys, or {"platform", "reason", "setup_steps"}
RecResponses ==
    {[kind |-> "none", platform |-> ""], [kind |-> "nokeys", platform |-> ""]}
    \cup [kind : {"json"}, platform : AIPlatforms]

-----------------------------------------------------------------------------
(* core/detector.py *)

\* manifest_type with the bundler looked up among the dependencies
manifest_type_vite_in_dependencies(p) ==
    IF ~p.ok THEN ""
    ELSE IF "next" \in p.dependencies THEN "nextjs"
    ELSE IF "vite" \in p.dependencies THEN "vite"
    ELSE IF "react" \in p.dependencies THEN "react"
    ELSE ""

\* lines 47-58: the marker found in the manifest, "" when there is none or
\* when json.load raises JSONDecodeError
manifest_type(p) ==
    IF ~p.ok THEN ""
    ELSE IF "next" \in p.dependencies THEN "nextjs"
    ELSE IF "vite" \in p.devDependencies THEN "vite"
    ELSE IF "react" \in p.dependencies THEN "react"
    ELSE ""

\* lines 46-66: the hardcoded detection
detect_fallback(fs, p) ==
    IF "package.json" \in fs /\ manifest_type(p) # "" THEN manifest_type(p)
    ELSE IF "index.html" \in fs THEN "static"
    ELSE IF "requirements.txt" \in fs THEN "python-flask"
    ELSE "unknown"

\* detect_project_type without the test of OLLAMA_AVAILABLE at line 24
detect_project_type_unguarded(avail, resp, fs, p) ==
    IF resp.ok THEN resp.type ELSE detect_fallback(fs, p)

\* lines 24-44: the answer of the backend is returned as it is
detect_project_type(avail, resp, fs, p) ==
    IF avail /\ resp.ok THEN resp.type ELSE detect_fallback(fs, p)

(* core/recommender.py *)

DefaultRecommendation ==
    [platform |-> "Vercel",
     reason |-> "Vercel supports most web frameworks and provides a great developer experience",
     setup_steps |-> VercelSteps]

\* recommend_fallback with RECOMMENDATIONS.get(project_type) and no default
recommend_fallback_no_default(t) ==
    IF t \in DOMAIN RECOMMENDATIONS THEN RECOMMENDATIONS[t]
    ELSE [platform |-> "", reason |-> "", setup_steps |-> <<>>]

\* lines 39-48: RECOMMENDATIONS.get(project_type, default)
recommend_fallback(t) ==
    IF t \in DOMAIN RECOMMENDATIONS THEN RECOMMENDATIONS[t] ELSE DefaultRecommendation

\* lines 19-37: json.loads of the answer is returned as it is.  has_keys is
\* FALSE for a JSON answer without "platform" / "reason" / "setup_steps".
recommend_platform(avail, resp, t) ==
    IF avail /\ resp.kind = "json"
    THEN [has_keys |-> TRUE, platform |-> resp.platform, reason |-> "ai reason",
          setup_steps |-> AISteps]
    ELSE IF avail /\ resp.kind = "nokeys"
    THEN [has_keys |-> FALSE, platform |-> "", reason |-> "", setup_steps |-> <<>>]
    ELSE [has_keys |-> TRUE] @@ recommend_fallback(t)

NoRec == [has_keys |-> FALSE, platform |-> "", reason |-> "", setup_steps |-> <<>>]


(* core/file_manager.py *)

\* JsTypes with the Flask projects taken for projects built with npm
JsTypesAndFlask == {"nextjs", "vite", "react", "python-flask"}

JsTypes == {"nextjs", "vite", "react"}

\* lines 7-129: the files present after create_required_files(project_type,
\* platform); each file is written only when os.path.exists says it is absent
create_required_files(t, plat, fs) ==
    fs
    \cup (IF t \in JsTypes /\ "package.json" \notin fs THEN {"package.json"} ELSE {})
    \cup (IF t = "python-flask" /\ "requirements.txt" \notin fs
          THEN {"requirements.txt"} ELSE {})
    \cup (IF t = "python-flask" /\ "app.py" \notin fs THEN {"app.py"} ELSE {})
    \cup (IF plat = "Vercel" /\ "vercel.json" \notin fs THEN {"vercel.json"} ELSE {})
    \cup (IF t = "static" /\ "index.html" \notin fs THEN {"index.html"} ELSE {})

\* the files create_required_files may write, in the order of lines 15-125
RequiredFiles ==
    <<"package.json", "requirements.txt", "app.py", "vercel.json", "index.html">>

\* the first half of each test of lines 15, 49, 57, 75, 112
required_for(t, plat, name) ==
    \/ name = "package.json" /\ t \in JsTypes
    \/ name = "requirements.txt" /\ t = "python-flask"
    \/ name = "app.py" /\ t = "python-flask"
    \/ name = "vercel.json" /\ plat = "Vercel"
    \/ name = "index.html" /\ t = "static"

\* required_files_written with package.json written whether it exists or not
required_files_written_over_manifest(t, plat, fs) ==
    SelectSeq(RequiredFiles,
              LAMBDA name : required_for(t, plat, name)
                            /\ (name \notin fs \/ name = "package.json"))

\* the files create_required_files opens with mode "w" (lines 44, 51, 70,
\* 107, 125), in order: each test ends with `not os.path.exists(name)`
required_files_written(t, plat, fs) ==
    SelectSeq(RequiredFiles,
              LAMBDA name : required_for(t, plat, name) /\ name \notin fs)

\* deploy_agent.py lines 214-220, 509-513: the files create_gitignore opens
\* with mode "w"
gitignore_written(fs) == IF ".gitignore" \in fs THEN <<>> ELSE <<".gitignore">>

\* a file opened for writing, as recorded
Open(name) == <<"open", name, "w">>

(* core/cli_manager.py *)

\* check_cli_installed with a probe that timed out taken for a tool present
check_cli_installed_unless_failed(outcome) == outcome # "fail"

\* lines 7-17: returncode == 0; a timeout or any other exception reads as absent
check_cli_installed(outcome) == outcome = "ok"

\* ProbeCmd probing the same CLI whatever the platform
ProbeCmdNetlify(plat) == <<"netlify", "--version">>

ProbeCmd(plat) == <<CLI_MAP[plat].cmd, "--version">>

InstallCmd(plat) == <<CLI_MAP[plat].install>>

(* core/builder.py *)

\* what a command gave: exit code 0 or not (a timeout or another exception
\* gives no exit code), and the signatures the build looks for in its output
Saw(cmd, outcome, missing_script, not_found) ==
    [cmd |-> cmd, ok |-> outcome = "ok", timed_out |-> FALSE,
     missing_script |-> missing_script, not_found |-> not_found]

\* a command the function runs under its own handlers (builder.py 83-88,
\* deployer.py 307-312, 335-340, 380-385, 453-458): timed_out says that
\* subprocess.run raised instead of returning
Ran(cmd, outcome, missing_script, not_found) ==
    [Saw(cmd, outcome, missing_script, not_found)
        EXCEPT !.timed_out = outcome = "timeout"]

\* a call with the truth value it returned
Returned(fn, ok) == Saw(fn, IF ok THEN "ok" ELSE "fail", FALSE, FALSE)

\* lines 8-28: node --version, then npm --version unless node is absent
check_node_installed(node, npm) ==
    IF node # "ok"
    THEN [ok |-> FALSE, cmds |-> << <<"node", "--version">> >>,
          saw |-> <<Saw(<<"node", "--version">>, node, FALSE, FALSE)>>]
    ELSE [ok |-> npm = "ok",
          cmds |-> << <<"node", "--version">>, <<"npm", "--version">> >>,
          saw |-> <<Saw(<<"node", "--version">>, node, FALSE, FALSE),
                    Saw(<<"npm", "--version">>, npm, FALSE, FALSE)>>]

\* line 61: os.path.exists("node_modules")
NodeModulesTest == <<"os.path.exists", "node_modules">>

NpmInstall == <<"npm", "install">>

\* install_dependencies with the result of npm install not looked at
install_dependencies_ignored(outcome) == TRUE

\* lines 30-46: returncode == 0; a timeout or any other exception is a failure
install_dependencies(outcome) == outcome = "ok"

\* build_failure with the signatures looked for in the other order
build_failure_not_found_first(missing_script, not_found) ==
    IF not_found THEN "remedy"
    ELSE IF missing_script THEN "proceed"
    ELSE "fail"

\* lines 73-82: what a nonzero exit code of the first build leads to
build_failure(missing_script, not_found) ==
    IF missing_script THEN "proceed"
    ELSE IF not_found THEN "remedy"
    ELSE "fail"

\* consented with every answer taken for a yes
consented_always(answer) == TRUE

\* line 77: input(...).lower() == 'y'
consented(answer) == answer = "y"

NpmRunBuild == <<"npm", "run", "build">>

(* core/deployer.py *)

\* lines 470-485; cli_ok is the result of the adapter that runs a deploy CLI
deploy_to_platform(plat, cli_ok) ==
    IF plat = "Netlify" THEN cli_ok
    ELSE IF plat = "Vercel" THEN cli_ok
    ELSE IF plat = "GitHub Pages" THEN TRUE
    ELSE IF plat = "Cloudflare Pages" THEN cli_ok
    ELSE IF plat = "Render" THEN TRUE
    ELSE FALSE

\* lines 460-468
deploy_to_platform_flask(plat, cli_ok) ==
    IF plat = "Vercel" THEN cli_ok
    ELSE IF plat = "Render" THEN TRUE
    ELSE deploy_to_platform(plat, cli_ok)

\* lines 22-37: the answers check_paid_platform_confirmation recognises
YesAnswers == {"yes", "y", "1", "true"}

NoAnswers == {"no", "n", "0", "false"}

\* answers of the user to the prompt, already lowered and stripped
ConsentAnswers == YesAnswers \cup NoAnswers \cup {"maybe"}

\* A line of captured output is a sequence of tokens; " " is whitespace.
UrlTokens == {"https://my-app.vercel.app", "https://my-app.pages.dev",
              "https://dash.cloudflare.com/my-app", "https://my-app.netlify.app"}

\* the tokens that contain the text "cloudflare"
CloudflareTokens == {"https://dash.cloudflare.com/my-app", "cloudflare"}

\* the tokens that contain "Live URL" or "Website URL"
LiveUrlLabels == {"Live URL:", "Website URL:"}

\* the lines a deploy command may print
OutputLines ==
    { <<"https://my-app.vercel.app">>,
      <<" ", "https://my-app.vercel.app", " ">>,
      <<"https://my-app.pages.dev", " ">>,
      <<"Production:", "https://dash.cloudflare.com/my-app">>,
      <<"Website URL:", "https://my-app.netlify.app">>,
      <<"Build", "complete">> }

\* line.startswith("https://")
startswith_https(line) == Len(line) > 0 /\ line[1] \in UrlTokens

\* "https://" in line
contains_https(line) == \E i \in DOMAIN line : line[i] \in UrlTokens

\* line.strip()
RECURSIVE strip(_)
strip(line) ==
    IF line = <<>> THEN <<>>
    ELSE IF line[1] = " " THEN strip(Tail(line))
    ELSE IF line[Len(line)] = " " THEN strip(SubSeq(line, 1, Len(line) - 1))
    ELSE line

\* the loop ends at the first matching line (break), which is printed
\* stripped after "Live URL: "
LiveUrlOf(found) == IF found = <<>> THEN <<>> ELSE <<strip(found[1])>>

\* vercel_live_urls printing the project's default address when the output
\* of the deploy command holds none
vercel_live_urls_default(out) ==
    IF SelectSeq(out, startswith_https) = <<>>
    THEN << <<"https://my-app.vercel.app">> >>
    ELSE LiveUrlOf(SelectSeq(out, startswith_https))

\* lines 327-330 and 444-447: the first line that starts with https://
vercel_live_urls(out) == LiveUrlOf(SelectSeq(out, startswith_https))

cloudflare_match(line) ==
    contains_https(line) /\ \E i \in DOMAIN line : line[i] \in CloudflareTokens

\* lines 372-375: the first line with "https://" and "cloudflare" in it
cloudflare_live_urls(out) == LiveUrlOf(SelectSeq(out, cloudflare_match))

netlify_match(line) == \E i \in DOMAIN line : line[i] \in LiveUrlLabels

\* lines 283-285: every line with "Live URL" or "Website URL" in it, as it is
netlify_live_urls(out) == SelectSeq(out, netlify_match)

\* lines 344-348 and 366: the first of dist, build, out that exists
build_folder(fs, none) ==
    IF "dist" \in fs THEN "dist"
    ELSE IF "build" \in fs THEN "build"
    ELSE IF "out" \in fs THEN "out"
    ELSE none

\* lines 342-361: deploy_to_github_pages moves the build folder to docs
deploy_to_github_pages(fs) ==
    IF build_folder(fs, "") # "" /\ "docs" \notin fs
    THEN (fs \ {build_folder(fs, "")}) \cup {"docs"}
    ELSE fs

\* lines 415-438: deploy_to_vercel_flask writes api/index.py when it is absent
vercel_flask_files(fs) == fs \cup {"api", "api/index.py"}

\* .netlify/state.json absent, without a site id (or unreadable), with one;
\* NETLIFY_SITE_ID ("" when unset); NETLIFY_AUTH_TOKEN set or not
NetlifyEnvs == [state_json : {"absent", "noid", "id"},
                env_site_id : {"", "site-from-env"},
                token : BOOLEAN]

NoNetlify == [state_json |-> "absent", env_site_id |-> "", token |-> FALSE]

\* what `netlify status` gives get_netlify_site_id: a "Site ID" line, none,
\* or a nonzero exit code / an exception
StatusOutcomes == {"id", "noid", "fail"}

NetlifyStatus == <<"netlify", "status">>

\* get_netlify_site_id with the environment looked at before netlify status
get_netlify_site_id_env_first(n, status) ==
    IF n.state_json = "id" THEN [id |-> "site-from-state", cmds |-> <<>>]
    ELSE IF n.env_site_id # "" THEN [id |-> n.env_site_id, cmds |-> <<>>]
    ELSE [id |-> IF status = "id" THEN "site-from-status" ELSE "",
          cmds |-> <<NetlifyStatus>>]

\* lines 57-118: state.json first, then netlify status, then the environment
get_netlify_site_id(n, status) ==
    IF n.state_json = "id" THEN [id |-> "site-from-state", cmds |-> <<>>]
    ELSE [id |-> IF status = "id" THEN "site-from-status" ELSE n.env_site_id,
          cmds |-> <<NetlifyStatus>>]

\* lines 120-136
verify_netlify_initialization(n, status) ==
    IF n.state_json # "absent" THEN [ok |-> TRUE, cmds |-> <<>>]
    ELSE [ok |-> get_netlify_site_id(n, status).id # "",
          cmds |-> get_netlify_site_id(n, status).cmds]

\* lines 138-146
update_netlify_site_id_runtime(n, site_id) ==
    IF site_id # "" THEN [n EXCEPT !.env_site_id = site_id] ELSE n

\* netlify_init_check passing whenever the project is verified as initialised
netlify_init_check_verified_passes(n, s1, s2) ==
    LET v == verify_netlify_initialization(n, s1)
        d == get_netlify_site_id(n, s2)
    IN IF ~v.ok THEN [verified |-> FALSE, passed |-> FALSE, cmds |-> v.cmds, env |-> n]
       ELSE [verified |-> TRUE, passed |-> TRUE, cmds |-> v.cmds \o d.cmds,
             env |-> update_netlify_site_id_runtime(n, d.id)]

\* lines 164-172 and 207-235: verification, then detection of the site id
netlify_init_check(n, s1, s2) ==
    LET v == verify_netlify_initialization(n, s1)
        d == get_netlify_site_id(n, s2)
    IN IF ~v.ok THEN [verified |-> FALSE, passed |-> FALSE, cmds |-> v.cmds, env |-> n]
       ELSE [verified |-> TRUE, passed |-> d.id # "", cmds |-> v.cmds \o d.cmds,
             env |-> update_netlify_site_id_runtime(n, d.id)]

\* the call of line 244, as recorded with its result
NetlifyInitGate == <<"netlify_init_gate">>

\* netlify_ready with the credential not looked at
netlify_ready_site_only(site, token) == site # ""

\* line 254: the deploy command needs the site id and NETLIFY_AUTH_TOKEN
netlify_ready(site, token) == site # "" /\ token

VercelWhoami == <<"vercel", "whoami">>

VercelLoginCmd == <<"vercel", "login">>

VercelDeployCmd == <<"vercel", "--prod", "--yes">>

\* Adapter with no branch for Render
AdapterWithoutRender(t, plat) ==
    IF t = "python-flask" /\ plat = "Vercel" THEN "deploy_to_vercel_flask"
    ELSE IF plat = "Netlify" THEN "deploy_to_netlify"
    ELSE IF plat = "Vercel" THEN "deploy_to_vercel"
    ELSE IF plat = "GitHub Pages" THEN "deploy_to_github_pages"
    ELSE IF plat = "Cloudflare Pages" THEN "deploy_to_cloudflare_pages"
    ELSE "unsupported"

\* Adapter with the instructions of Render given for every other platform
AdapterDefaultRender(t, plat) ==
    IF t = "python-flask" /\ plat = "Vercel" THEN "deploy_to_vercel_flask"
    ELSE IF plat = "Netlify" THEN "deploy_to_netlify"
    ELSE IF plat = "Vercel" THEN "deploy_to_vercel"
    ELSE IF plat = "GitHub Pages" THEN "deploy_to_github_pages"
    ELSE IF plat = "Cloudflare Pages" THEN "deploy_to_cloudflare_pages"
    ELSE "deploy_to_render"

\* main.py lines 161-164 and deployer.py lines 460-485: the adapter called
Adapter(t, plat) ==
    IF t = "python-flask" /\ plat = "Vercel" THEN "deploy_to_vercel_flask"
    ELSE IF plat = "Netlify" THEN "deploy_to_netlify"
    ELSE IF plat = "Vercel" THEN "deploy_to_vercel"
    ELSE IF plat = "GitHub Pages" THEN "deploy_to_github_pages"
    ELSE IF plat = "Cloudflare Pages" THEN "deploy_to_cloudflare_pages"
    ELSE IF plat = "Render" THEN "deploy_to_render"
    ELSE "unsupported"

-----------------------------------------------------------------------------
(* main.py *)

\* GitRequiredPlatforms with the readiness gate applied to every platform
GitRequiredPlatformsAll == SupportedPlatforms \cup PAID_PLATFORMS

GitRequiredPlatforms == {"GitHub Pages", "Render"}

Stages == {"install_cli", "create_required_files", "init_git_repo",
           "ensure_git_ready", "auto_commit", "build_project"}

Result(passed) == IF passed THEN "passed" ELSE "failed"

\* a call of a core.git_handler function and the truth value of what it returned
Call(fn, result) == <<fn, result>>

\* ensure_git_ready_for_deployment going on when no remote is configured
ensure_git_ready_remote_optional(plat, e) ==
    IF plat \notin GitRequiredPlatforms THEN [passed |-> TRUE, calls |-> <<>>]
    ELSE LET c1 == IF e.is_repo THEN <<Call("is_git_repo", TRUE)>>
                   ELSE <<Call("is_git_repo", FALSE), Call("init_git_repo", e.init_ok)>>
             c2 == c1 \o <<Call("get_git_remote_url", e.remote)>>
             c3 == c2 \o <<Call("has_uncommitted_changes", e.dirty)>>
             c4 == c3 \o <<Call("generate_commit_message", TRUE),
                            Call("git_add_and_commit", e.commit_ok)>>
         IN IF ~e.is_repo /\ ~e.init_ok THEN [passed |-> FALSE, calls |-> c1]
            ELSE IF ~e.dirty THEN [passed |-> TRUE, calls |-> c3]
            ELSE IF ~e.commit_ok THEN [passed |-> FALSE, calls |-> c4]
            ELSE [passed |-> e.push_ok \/ ~e.remote,
                  calls |-> c4 \o <<Call("git_push_to_remote", e.push_ok)>>]

\* lines 25-67: e holds what the git_handler calls answer
ensure_git_ready_for_deployment(plat, e) ==
    IF plat \notin GitRequiredPlatforms THEN [passed |-> TRUE, calls |-> <<>>]
    ELSE LET c1 == IF e.is_repo THEN <<Call("is_git_repo", TRUE)>>
                   ELSE <<Call("is_git_repo", FALSE), Call("init_git_repo", e.init_ok)>>
             c2 == c1 \o <<Call("get_git_remote_url", e.remote)>>
             c3 == c2 \o <<Call("has_uncommitted_changes", e.dirty)>>
             c4 == c3 \o <<Call("generate_commit_message", TRUE),
                            Call("git_add_and_commit", e.commit_ok)>>
         IN IF ~e.is_repo /\ ~e.init_ok THEN [passed |-> FALSE, calls |-> c1]
            ELSE IF ~e.remote THEN [passed |-> FALSE, calls |-> c2]
            ELSE IF ~e.dirty THEN [passed |-> TRUE, calls |-> c3]
            ELSE IF ~e.commit_ok THEN [passed |-> FALSE, calls |-> c4]
            ELSE [passed |-> e.push_ok,
                  calls |-> c4 \o <<Call("git_push_to_remote", e.push_ok)>>]

\* lines 141-151: the results of the commit and of the push are not read
auto_commit(e) ==
    LET c1 == <<Call("is_git_repo", e.is_repo)>>
        c2 == c1 \o <<Call("has_uncommitted_changes", e.dirty)>>
        c3 == c2 \o <<Call("generate_commit_message", TRUE),
                       Call("git_add_and_commit", e.commit_ok),
                       Call("get_git_remote_url", e.remote)>>
    IN IF ~e.is_repo THEN [ran |-> FALSE, ok |-> TRUE, calls |-> c1]
       ELSE IF ~e.dirty THEN [ran |-> FALSE, ok |-> TRUE, calls |-> c2]
       ELSE IF ~e.remote THEN [ran |-> TRUE, ok |-> e.commit_ok, calls |-> c3]
       ELSE [ran |-> TRUE, ok |-> e.commit_ok /\ e.push_ok,
             calls |-> c3 \o <<Call("git_push_to_remote", e.push_ok)>>]

\* AfterStage with the toolchain gate ahead of the consent check
AfterStageToolchainFirst(s) ==
    CASE s = "recommend" -> "install_cli"
      [] s = "install_cli" -> "consent"
      [] s = "consent" -> "create_files"
      [] s = "create_files" -> "init_git"
      [] s = "init_git" -> "ensure_git"
      [] s = "ensure_git" -> "auto_commit"
      [] s = "auto_commit" -> "build"
      [] s = "build" -> "deploy"
      [] s = "deploy" -> "report"

\* lines 98-164: the stage main() goes to when stage s let it continue
AfterStage(s) ==
    CASE s = "recommend" -> "consent"
      [] s = "consent" -> "install_cli"
      [] s = "install_cli" -> "create_files"
      [] s = "create_files" -> "init_git"
      [] s = "init_git" -> "ensure_git"
      [] s = "ensure_git" -> "auto_commit"
      [] s = "auto_commit" -> "build"
      [] s = "build" -> "deploy"
      [] s = "deploy" -> "report"

GitAnswers == [is_repo : BOOLEAN, init_ok : BOOLEAN, remote : BOOLEAN,
               dirty : BOOLEAN, commit_ok : BOOLEAN, push_ok : BOOLEAN]

-----------------------------------------------------------------------------
(* A run of main() *)

\* the project directories main() is run in: every listing with a choice
\* of manifests when the backend is absent, two of them when it is present
\* (its answer does not depend on the directory)
RunManifests ==
    {m \in Manifests : m.devDependencies \subseteq {"vite"}
                       /\ m.dependencies \in {{"react"}, {"next", "react"}}}
    \cup {NoManifest}

RunDirectories(avail) ==
    IF avail
    THEN {[files |-> {}, pkg |-> NoManifest],
          [files |-> {"package.json", "index.html"},
           pkg |-> [ok |-> TRUE, dependencies |-> {"react"}, devDependencies |-> {}]]}
    ELSE {[files |-> fs, pkg |-> m] : fs \in SUBSET ListingFiles, m \in RunManifests}

\* main() at line 90: the model selection of lines 81-85 (prompts and the
\* backend's model list) is over; it runs no command and writes no file
Init ==
    /\ pc = "detect"
    /\ ollama \in BOOLEAN
    /\ \E d \in RunDirectories(ollama) :
         /\ files = d.files
         /\ pkg = IF "package.json" \in d.files THEN d.pkg ELSE NoManifest
    /\ arg = "unknown"
    /\ project_type = ""
    /\ rec = NoRec
    /\ platform = ""
    /\ trace = <<>>
    /\ gates = [s \in Stages |-> "notrun"]
    /\ cmds = <<>>
    /\ prompts = <<>>
    /\ git_calls = <<>>
    /\ created = {}
    /\ via = [detect |-> "", rec |-> ""]
    /\ success = FALSE
    /\ exit_status = -1
    /\ stdout = <<>>
    /\ live_urls = <<>>
    /\ observed = <<>>
    /\ retval = ""
    /\ netlify = NoNetlify

\* MainDetect without the return of lines 94-96
MainDetectNoHalt ==
    /\ pc = "detect"
    /\ \E resp \in DetectResponses :
         /\ project_type' = detect_project_type(ollama, resp, files, pkg)
         /\ via' = [via EXCEPT !.detect = IF ollama /\ resp.ok THEN "ai" ELSE "fallback"]
    /\ trace' = Append(trace, "detect")
    /\ pc' = "recommend"
    /\ UNCHANGED <<ollama, files, pkg, arg, rec, platform, gates, cmds,
                   prompts, git_calls, created, success, exit_status,
                   stdout, live_urls, netlify,
                   observed, retval>>

\* main.py lines 90-96
MainDetect ==
    /\ pc = "detect"
    /\ \E resp \in DetectResponses :
         /\ project_type' = detect_project_type(ollama, resp, files, pkg)
         /\ via' = [via EXCEPT !.detect = IF ollama /\ resp.ok THEN "ai" ELSE "fallback"]
    /\ trace' = Append(trace, "detect")
    /\ pc' = IF project_type' = "unknown" THEN "returned" ELSE "recommend"
    /\ UNCHANGED <<ollama, files, pkg, arg, rec, platform, gates, cmds, prompts,
                   git_calls, created, success, exit_status,
                   stdout, live_urls, netlify,
                   observed, retval>>

\* rec = recommend_platform(project_type); platform = rec["platform"], which
\* raises KeyError when the answer of the backend lacks the key
Recommend(next) ==
    /\ \E resp \in RecResponses :
         /\ rec' = recommend_platform(ollama, resp, project_type)
         /\ via' = [via EXCEPT !.rec = IF ollama /\ resp.kind # "none"
                                       THEN "ai" ELSE "fallback"]
    /\ trace' = Append(trace, "recommend")
    /\ platform' = IF rec'.has_keys THEN rec'.platform ELSE platform
    /\ pc' = IF rec'.has_keys THEN next ELSE "raised"

\* main.py lines 98-105
MainRecommend ==
    /\ pc = "recommend"
    /\ Recommend(AfterStage("recommend"))
    /\ UNCHANGED <<ollama, files, pkg, arg, project_type, gates, cmds, prompts,
                   git_calls, created, success, exit_status,
                   stdout, live_urls, netlify,
                   observed, retval>>

\* main.py line 108 and deployer.py lines 24, 37: a platform outside
\* PAID_PLATFORMS is confirmed without a prompt
MainConsent ==
    /\ pc = "consent"
    /\ trace' = Append(trace, "consent")
    /\ pc' = IF platform \in PAID_PLATFORMS THEN "consent_prompt"
             ELSE AfterStage("consent")
    /\ UNCHANGED <<ollama, files, pkg, arg, project_type, rec, platform, gates, cmds,
                   prompts, git_calls, created, via, success, exit_status,
                   stdout, live_urls, netlify,
                   observed, retval>>

InvalidAnswers == Len(SelectSeq(prompts, LAMBDA q : q = <<"proceed?", "invalid">>))

\* AfterDecline going back to the recommendation and the consent check
AfterDeclineLoop == "recommend"

\* where main() continues after the user declined the paid platform
AfterDecline == "rerecommend"

\* deployer.py lines 27-35: one round of the prompt loop
ConsentPrompt ==
    /\ pc = "consent_prompt"
    /\ \E response \in ConsentAnswers :
         IF response \in YesAnswers
         THEN /\ prompts' = Append(prompts, <<"proceed?", "yes">>)
              /\ pc' = AfterStage("consent")
         ELSE IF response \in NoAnswers
         THEN /\ prompts' = Append(prompts, <<"proceed?", "no">>)
              /\ pc' = AfterDecline
         ELSE /\ InvalidAnswers < MaxInvalidAnswers
              /\ prompts' = Append(prompts, <<"proceed?", "invalid">>)
              /\ pc' = "consent_prompt"
    /\ UNCHANGED <<ollama, files, pkg, arg, project_type, rec, platform, trace, gates,
                   cmds, git_calls, created, via, success, exit_status,
                   stdout, live_urls, netlify,
                   observed, retval>>

\* main.py lines 109-117
MainReRecommend ==
    /\ pc = "rerecommend"
    /\ Recommend(AfterStage("consent"))
    /\ UNCHANGED <<ollama, files, pkg, arg, project_type, gates, cmds, prompts,
                   git_calls, created, success, exit_status,
                   stdout, live_urls, netlify,
                   observed, retval>>

-----------------------------------------------------------------------------
(* install_cli(platform), core/cli_manager.py lines 19-68, called at main.py 121 *)

\* install_cli returns `passed` to main.py lines 121-123
InstallCliReturn(passed) ==
    /\ gates' = [gates EXCEPT !["install_cli"] = Result(passed)]
    /\ pc' = IF passed THEN AfterStage("install_cli") ELSE "returned"

\* lines 21-33: no CLI needed, or the first version probe
InstallCli ==
    /\ pc = "install_cli"
    /\ trace' = Append(trace, "install_cli")
    /\ IF platform \notin DOMAIN CLI_MAP
       THEN /\ InstallCliReturn(TRUE)
            /\ UNCHANGED <<cmds, observed>>
       ELSE \E outcome \in CmdOutcomes :
              /\ cmds' = Append(cmds, ProbeCmd(platform))
              /\ observed' = Append(observed, Saw(ProbeCmd(platform), outcome, FALSE, FALSE))
              /\ IF check_cli_installed(outcome) THEN InstallCliReturn(TRUE)
                 ELSE /\ pc' = IF CLI_MAP[platform].auto_install
                                THEN "cli_permission" ELSE "cli_manual"
                      /\ UNCHANGED gates
    /\ UNCHANGED <<ollama, files, pkg, arg, project_type, rec, platform, prompts,
                   git_calls, created, via, success, exit_status,
                   stdout, live_urls, netlify, retval>>

\* CliDeclined going on to the manual installation
CliDeclinedManual == pc' = "cli_manual" /\ UNCHANGED gates

\* lines 51-54: the user declined the automatic installation
CliDeclined == InstallCliReturn(FALSE)

\* lines 34-35, 51-54: permission.lower() == 'y'
CliPermission ==
    /\ pc = "cli_permission"
    /\ \E permission \in {"y", "n"} :
         /\ prompts' = Append(prompts, <<"install automatically?", permission>>)
         /\ IF permission = "y"
            THEN pc' = "cli_install" /\ UNCHANGED gates
            ELSE CliDeclined
    /\ UNCHANGED <<ollama, files, pkg, arg, project_type, rec, platform, trace, cmds,
                   git_calls, created, via, success, exit_status,
                   stdout, live_urls, netlify,
                   observed, retval>>

\* lines 36-50: the install command; its exit code is the result of the gate
CliInstall ==
    /\ pc = "cli_install"
    /\ \E outcome \in CmdOutcomes :
         /\ cmds' = Append(cmds, InstallCmd(platform))
         /\ observed' = Append(observed, Saw(InstallCmd(platform), outcome, FALSE, FALSE))
         /\ InstallCliReturn(outcome = "ok")
    /\ UNCHANGED <<ollama, files, pkg, arg, project_type, rec, platform, trace, prompts,
                   git_calls, created, via, success, exit_status,
                   stdout, live_urls, netlify, retval>>

\* lines 55-68: manual installation, acknowledged with Enter, then verified
CliManual ==
    /\ pc = "cli_manual"
    /\ prompts' = Append(prompts, <<"Press Enter after installing...", "">>)
    /\ \E outcome \in CmdOutcomes :
         /\ cmds' = Append(cmds, ProbeCmd(platform))
         /\ observed' = Append(observed, Saw(ProbeCmd(platform), outcome, FALSE, FALSE))
         /\ InstallCliReturn(check_cli_installed(outcome))
    /\ UNCHANGED <<ollama, files, pkg, arg, project_type, rec, platform, trace,
                   git_calls, created, via, success, exit_status,
                   stdout, live_urls, netlify, retval>>

-----------------------------------------------------------------------------
(* main.py lines 125-151 *)

\* lines 125-129; file_manager.py opens each missing file for writing outside
\* any try block (lines 44, 51, 70, 107, 125), so in a directory that cannot
\* be written the first open() raises OSError through main()
MainCreateFiles ==
    /\ pc = "create_files"
    /\ trace' = Append(trace, "create_required_files")
    /\ \E writable \in BOOLEAN :
         IF writable \/ create_required_files(project_type, platform, files) = files
         THEN /\ files' = create_required_files(project_type, platform, files)
              /\ created' = created \cup (files' \ files)
              /\ gates' = [gates EXCEPT !["create_required_files"] = "passed"]
              /\ pc' = AfterStage("create_files")
         ELSE /\ pc' = "raised"
              /\ UNCHANGED <<files, created, gates>>
    /\ UNCHANGED <<ollama, pkg, arg, project_type, rec, platform, cmds, prompts,
                   git_calls, via, success, exit_status,
                   stdout, live_urls, netlify,
                   observed, retval>>

\* lines 131-134: a failure is reported and the run goes on
MainInitGit ==
    /\ pc = "init_git"
    /\ trace' = Append(trace, "init_git_repo")
    /\ \E ok \in BOOLEAN :
         /\ git_calls' = Append(git_calls, Call("init_git_repo", ok))
         /\ gates' = [gates EXCEPT !["init_git_repo"] = Result(ok)]
         /\ pc' = AfterStage("init_git")
    /\ UNCHANGED <<ollama, files, pkg, arg, project_type, rec, platform, cmds, prompts,
                   created, via, success, exit_status,
                   stdout, live_urls, netlify,
                   observed, retval>>

\* lines 136-139
MainEnsureGit ==
    /\ pc = "ensure_git"
    /\ trace' = Append(trace, "ensure_git_ready")
    /\ \E e \in GitAnswers :
         LET r == ensure_git_ready_for_deployment(platform, e)
         IN /\ git_calls' = git_calls \o r.calls
            /\ gates' = [gates EXCEPT !["ensure_git_ready"] = Result(r.passed)]
            /\ pc' = IF r.passed THEN AfterStage("ensure_git") ELSE "returned"
    /\ UNCHANGED <<ollama, files, pkg, arg, project_type, rec, platform, cmds, prompts,
                   created, via, success, exit_status,
                   stdout, live_urls, netlify,
                   observed, retval>>

\* lines 141-151
MainAutoCommit ==
    /\ pc = "auto_commit"
    /\ \E e \in GitAnswers :
         LET r == auto_commit(e)
         IN /\ git_calls' = git_calls \o r.calls
            /\ trace' = IF r.ran THEN Append(trace, "auto_commit") ELSE trace
            /\ gates' = [gates EXCEPT !["auto_commit"] =
                            IF r.ran THEN Result(r.ok) ELSE "notrun"]
    /\ pc' = AfterStage("auto_commit")
    /\ UNCHANGED <<ollama, files, pkg, arg, project_type, rec, platform, cmds, prompts,
                   created, via, success, exit_status,
                   stdout, live_urls, netlify,
                   observed, retval>>

-----------------------------------------------------------------------------
(* build_project(project_type), core/builder.py lines 48-91, called at main.py 155 *)

\* BuildReturn with the result of build_project not read by main()
BuildReturnIgnored(passed) ==
    /\ gates' = [gates EXCEPT !["build_project"] = Result(passed)]
    /\ pc' = AfterStage("build")

\* build_project returns `passed` to main.py lines 155-157
BuildReturn(passed) ==
    /\ gates' = [gates EXCEPT !["build_project"] = Result(passed)]
    /\ pc' = IF passed THEN AfterStage("build") ELSE "returned"

\* lines 53-54, 89-91: no build step, or the first check of node and npm
BuildProject ==
    /\ pc = "build"
    /\ trace' = Append(trace, "build_project")
    /\ IF project_type \notin JsTypes
       THEN /\ BuildReturn(TRUE)
            /\ UNCHANGED <<cmds, observed>>
       ELSE \E node \in CmdOutcomes, npm \in CmdOutcomes :
              LET r == check_node_installed(node, npm)
              IN /\ cmds' = cmds \o r.cmds
                 /\ observed' = observed \o r.saw
                 /\ pc' = IF r.ok THEN "build_deps" ELSE "build_node_prompt"
                 /\ UNCHANGED gates
    /\ UNCHANGED <<ollama, files, pkg, arg, project_type, rec, platform, prompts,
                   git_calls, created, via, success, exit_status,
                   stdout, live_urls, netlify, retval>>

\* lines 55-59: the stage fails whatever the re-check finds
BuildNodePrompt ==
    /\ pc = "build_node_prompt"
    /\ \E retry \in {"y", "n"} :
         /\ prompts' = Append(prompts, <<"Check again after install?", retry>>)
         /\ IF retry = "y"
            THEN \E node \in CmdOutcomes, npm \in CmdOutcomes :
                   /\ cmds' = cmds \o check_node_installed(node, npm).cmds
                   /\ observed' = observed \o check_node_installed(node, npm).saw
            ELSE UNCHANGED <<cmds, observed>>
    /\ BuildReturn(FALSE)
    /\ UNCHANGED <<ollama, files, pkg, arg, project_type, rec, platform, trace,
                   git_calls, created, via, success, exit_status,
                   stdout, live_urls, netlify, retval>>

\* lines 61-63 and install_dependencies (lines 30-46)
BuildDeps ==
    /\ pc = "build_deps"
    /\ \E node_modules \in BOOLEAN :
         IF node_modules
         THEN /\ observed' = Append(observed, Saw(NodeModulesTest, "ok", FALSE, FALSE))
              /\ pc' = "build_run"
              /\ UNCHANGED <<cmds, gates>>
         ELSE \E outcome \in CmdOutcomes :
                /\ cmds' = Append(cmds, NpmInstall)
                /\ observed' = observed \o <<Saw(NodeModulesTest, "fail", FALSE, FALSE),
                                              Saw(NpmInstall, outcome, FALSE, FALSE)>>
                /\ IF install_dependencies(outcome)
                   THEN pc' = "build_run" /\ UNCHANGED gates
                   ELSE BuildReturn(FALSE)
    /\ UNCHANGED <<ollama, files, pkg, arg, project_type, rec, platform, trace, prompts,
                   git_calls, created, via, success, exit_status,
                   stdout, live_urls, netlify, retval>>

\* BuildTimedOut offering the remediation of a build that failed
BuildTimedOutRemedy == pc' = "build_fix_prompt" /\ UNCHANGED gates

\* lines 83-85: TimeoutExpired of the build command
BuildTimedOut == BuildReturn(FALSE)

\* lines 65-76, 82-88: the first build; missing_script is the signature in
\* stderr or stdout, not_found the one in stderr
BuildRun ==
    /\ pc = "build_run"
    /\ cmds' = Append(cmds, NpmRunBuild)
    /\ \E outcome \in CmdOutcomes, missing_script \in BOOLEAN, not_found \in BOOLEAN :
         /\ outcome # "fail" => ~missing_script /\ ~not_found
         /\ observed' = Append(observed, Ran(NpmRunBuild, outcome, missing_script, not_found))
         /\ IF outcome = "ok" THEN BuildReturn(TRUE)
            ELSE IF outcome = "timeout" THEN BuildTimedOut
            ELSE IF build_failure(missing_script, not_found) = "proceed"
            THEN BuildReturn(TRUE)
            ELSE IF build_failure(missing_script, not_found) = "remedy"
            THEN pc' = "build_fix_prompt" /\ UNCHANGED gates
            ELSE BuildReturn(FALSE)
    /\ UNCHANGED <<ollama, files, pkg, arg, project_type, rec, platform, trace, prompts,
                   git_calls, created, via, success, exit_status,
                   stdout, live_urls, netlify, retval>>

\* line 77
BuildFixPrompt ==
    /\ pc = "build_fix_prompt"
    /\ \E answer \in {"y", "n"} :
         /\ prompts' = Append(prompts, <<"Install dependencies now?", answer>>)
         /\ IF consented(answer) THEN pc' = "build_fix_install" /\ UNCHANGED gates
            ELSE BuildReturn(FALSE)
    /\ UNCHANGED <<ollama, files, pkg, arg, project_type, rec, platform, trace, cmds,
                   git_calls, created, via, success, exit_status,
                   stdout, live_urls, netlify,
                   observed, retval>>

\* line 78
BuildFixInstall ==
    /\ pc = "build_fix_install"
    /\ cmds' = Append(cmds, NpmInstall)
    /\ \E outcome \in CmdOutcomes :
         /\ observed' = Append(observed, Saw(NpmInstall, outcome, FALSE, FALSE))
         /\ IF install_dependencies(outcome)
            THEN pc' = "build_retry" /\ UNCHANGED gates
            ELSE BuildReturn(FALSE)
    /\ UNCHANGED <<ollama, files, pkg, arg, project_type, rec, platform, trace, prompts,
                   git_calls, created, via, success, exit_status,
                   stdout, live_urls, netlify, retval>>

\* BuildRetry offering the remediation again when the signature is back
BuildRetryLoops ==
    /\ pc = "build_retry"
    /\ cmds' = Append(cmds, NpmRunBuild)
    /\ \E outcome \in CmdOutcomes, not_found \in BOOLEAN :
         /\ outcome # "fail" => ~not_found
         /\ observed' = Append(observed, Ran(NpmRunBuild, outcome, FALSE, not_found))
         /\ IF outcome = "fail" /\ not_found
            THEN pc' = "build_fix_prompt" /\ UNCHANGED gates
            ELSE BuildReturn(outcome = "ok")
    /\ UNCHANGED <<ollama, files, pkg, arg, project_type, rec, platform, trace, prompts,
                   git_calls, created, via, success, exit_status,
                   stdout, live_urls, netlify, retval>>

\* lines 79-88: the result of the retry is final, whatever its output
BuildRetry ==
    /\ pc = "build_retry"
    /\ cmds' = Append(cmds, NpmRunBuild)
    /\ \E outcome \in CmdOutcomes, not_found \in BOOLEAN :
         /\ outcome # "fail" => ~not_found
         /\ observed' = Append(observed, Ran(NpmRunBuild, outcome, FALSE, not_found))
         /\ BuildReturn(outcome = "ok")
    /\ UNCHANGED <<ollama, files, pkg, arg, project_type, rec, platform, trace, prompts,
                   git_calls, created, via, success, exit_status,
                   stdout, live_urls, netlify, retval>>

-----------------------------------------------------------------------------
(* main.py lines 159-205 *)

\* lines 159-164: the adapter; the result of an adapter that runs a deploy
\* CLI is chosen by the environment
MainDeploy ==
    /\ pc = "deploy"
    /\ trace' = Append(trace, "deploy")
    /\ \E cli_ok \in BOOLEAN :
         success' = IF project_type = "python-flask"
                    THEN deploy_to_platform_flask(platform, cli_ok)
                    ELSE deploy_to_platform(platform, cli_ok)
    /\ pc' = AfterStage("deploy")
    /\ UNCHANGED <<ollama, files, pkg, arg, project_type, rec, platform, gates, cmds,
                   prompts, git_calls, created, via, exit_status,
                   stdout, live_urls, netlify,
                   observed, retval>>

\* lines 166-197: the report; after a success on Netlify the status command
\* is run and its failure is ignored
MainReport ==
    /\ pc = "report"
    /\ cmds' = IF success /\ platform = "Netlify"
               THEN Append(cmds, <<"netlify", "status">>) ELSE cmds
    /\ pc' = "returned"
    /\ UNCHANGED <<ollama, files, pkg, arg, project_type, rec, platform, trace, gates,
                   prompts, git_calls, created, via, success, exit_status,
                   stdout, live_urls, netlify,
                   observed, retval>>

\* auto_deploy_agent_cli/deploy_agent.py lines 10-18, the console script
\* `deploy-agent` of setup.py: _main() is called outside any try block, so an
\* exception raised in main() leaves the entry point and the interpreter
\* prints the traceback and exits with 1.  How the run was started shows
\* only here, so the choice between the two entry points is made here.
CliEntryMain ==
    /\ pc = "raised"
    /\ exit_status' = 1
    /\ pc' = "propagated"
    /\ UNCHANGED <<ollama, files, pkg, arg, project_type, rec, platform, trace, gates,
                   cmds, prompts, git_calls, created, via, success,
                   stdout, live_urls, netlify,
                   observed, retval>>

\* main.py lines 199-205, `python main.py`: main() returned, or the handler of
\* lines 202-205 printed the exception and its traceback; nothing calls
\* sys.exit, so the interpreter exits with 0
ProcessExit ==
    /\ pc \in {"returned", "raised"}
    /\ exit_status' = 0
    /\ pc' = "exited"
    /\ UNCHANGED <<ollama, files, pkg, arg, project_type, rec, platform, trace, gates,
                   cmds, prompts, git_calls, created, via, success,
                   stdout, live_urls, netlify,
                   observed, retval>>

Next ==
    \/ MainDetect \/ MainRecommend \/ MainConsent \/ ConsentPrompt \/ MainReRecommend
    \/ InstallCli \/ CliPermission \/ CliInstall \/ CliManual
    \/ MainCreateFiles \/ MainInitGit \/ MainEnsureGit \/ MainAutoCommit
    \/ BuildProject \/ BuildNodePrompt \/ BuildDeps \/ BuildRun \/ BuildFixPrompt
    \/ BuildFixInstall \/ BuildRetry
    \/ MainDeploy \/ MainReport \/ CliEntryMain \/ ProcessExit

Spec == Init /\ [][Next]_vars

-----------------------------------------------------------------------------
(* Direct calls of install_cli(platform) and build_project(project_type) on  *)
(* any arguments: the two gates as functions, their callers left out         *)

\* the call: which of the two functions, and its argument
GateInit ==
    /\ pc \in {"install_cli", "build"}
    /\ platform \in AIPlatforms
    /\ project_type \in AllTags
    /\ ollama = FALSE
    /\ files = {}
    /\ pkg = NoManifest
    /\ arg = "unknown"
    /\ rec = NoRec
    /\ trace = <<>>
    /\ gates = [s \in Stages |-> "notrun"]
    /\ cmds = <<>>
    /\ prompts = <<>>
    /\ git_calls = <<>>
    /\ created = {}
    /\ via = [detect |-> "", rec |-> ""]
    /\ success = FALSE
    /\ exit_status = -1
    /\ stdout = <<>>
    /\ live_urls = <<>>
    /\ observed = <<>>
    /\ retval = ""
    /\ netlify = NoNetlify

GateNext ==
    \/ InstallCli \/ CliPermission \/ CliInstall \/ CliManual
    \/ BuildProject \/ BuildNodePrompt \/ BuildDeps \/ BuildRun \/ BuildFixPrompt
    \/ BuildFixInstall \/ BuildRetry

GateSpec == GateInit /\ [][GateNext]_vars

-----------------------------------------------------------------------------
(* Direct calls of the helpers get_netlify_site_id, create_required_files    *)
(* and create_gitignore; the last two may be called a second time            *)

ScaffoldFiles ==
    {"package.json", "requirements.txt", "app.py", "vercel.json", "index.html",
     ".gitignore"}

\* the directory, the arguments and the Netlify environment of the call
HelperCalls ==
    {[files |-> {}, project_type |-> "static", platform |-> "Netlify", netlify |-> n] :
        n \in NetlifyEnvs}
    \cup {[files |-> fs, project_type |-> t, platform |-> p, netlify |-> NoNetlify] :
            fs \in SUBSET ScaffoldFiles, t \in {"react", "python-flask", "static", OtherTag},
            p \in {"Vercel", "Netlify"}}

HelperInit ==
    /\ pc = "helper_call"
    /\ ollama = FALSE
    /\ \E c \in HelperCalls :
         /\ files = c.files
         /\ project_type = c.project_type
         /\ platform = c.platform
         /\ netlify = c.netlify
    /\ pkg = NoManifest
    /\ arg = "unknown"
    /\ rec = NoRec
    /\ trace = <<>>
    /\ gates = [s \in Stages |-> "notrun"]
    /\ cmds = <<>>
    /\ prompts = <<>>
    /\ git_calls = <<>>
    /\ created = {}
    /\ via = [detect |-> "", rec |-> ""]
    /\ success = FALSE
    /\ exit_status = -1
    /\ stdout = <<>>
    /\ live_urls = <<>>
    /\ observed = <<>>
    /\ retval = ""

\* deployer.py lines 57-118; None is the empty string
GetNetlifySiteId ==
    /\ pc = "helper_call"
    /\ trace' = Append(trace, "get_netlify_site_id")
    /\ \E status \in StatusOutcomes :
         LET r == get_netlify_site_id(netlify, status)
         IN /\ retval' = r.id
            /\ cmds' = cmds \o r.cmds
            /\ observed' = IF r.cmds = <<>> THEN observed
                           ELSE Append(observed, Returned(NetlifyStatus, status = "id"))
    /\ pc' = "helper_done"
    /\ UNCHANGED <<ollama, files, pkg, arg, project_type, rec, platform, gates, prompts,
                   git_calls, created, via, success, exit_status, stdout, live_urls,
                   netlify>>

\* file_manager.py lines 7-129: the first call, or a second one with the same
\* arguments; in a directory that cannot be written the first open() raises
CreateRequiredFiles ==
    /\ pc \in {"helper_call", "scaffolded"}
    /\ trace' = Append(trace, "create_required_files")
    /\ \E writable \in BOOLEAN :
         LET w == required_files_written(project_type, platform, files)
         IN IF writable \/ w = <<>>
            THEN /\ files' = files \cup {w[i] : i \in DOMAIN w}
                 /\ created' = created \cup {w[i] : i \in DOMAIN w}
                 /\ observed' = observed \o [i \in DOMAIN w |-> Returned(Open(w[i]), TRUE)]
                 /\ retval' = "True"
                 /\ pc' = IF pc = "helper_call" THEN "scaffolded" ELSE "scaffolded_again"
            ELSE /\ pc' = "raised"
                 /\ UNCHANGED <<files, created, observed, retval>>
    /\ UNCHANGED <<ollama, pkg, arg, project_type, rec, platform, gates, cmds, prompts,
                   git_calls, via, success, exit_status, stdout, live_urls, netlify>>

\* deploy_agent.py lines 214-220 and 509-516: the first call, or a second
\* one; a failure to write is caught and reported as False
CreateGitignore ==
    /\ pc \in {"helper_call", "ignored"}
    /\ trace' = Append(trace, "create_gitignore")
    /\ \E writable \in BOOLEAN :
         LET w == gitignore_written(files)
         IN IF writable \/ w = <<>>
            THEN /\ files' = files \cup {w[i] : i \in DOMAIN w}
                 /\ created' = created \cup {w[i] : i \in DOMAIN w}
                 /\ observed' = observed \o [i \in DOMAIN w |-> Returned(Open(w[i]), TRUE)]
                 /\ retval' = "True"
            ELSE /\ observed' = observed \o [i \in DOMAIN w |-> Returned(Open(w[i]), FALSE)]
                 /\ retval' = "False"
                 /\ UNCHANGED <<files, created>>
    /\ pc' = IF pc = "helper_call" THEN "ignored" ELSE "ignored_again"
    /\ UNCHANGED <<ollama, pkg, arg, project_type, rec, platform, gates, cmds, prompts,
                   git_calls, via, success, exit_status, stdout, live_urls, netlify>>

HelperNext == GetNetlifySiteId \/ CreateRequiredFiles \/ CreateGitignore

HelperSpec == HelperInit /\ [][HelperNext]_vars

-----------------------------------------------------------------------------
(* Direct calls of detect_project_type and recommend_platform on their       *)
(* deterministic path: the backend is absent or gives no usable answer.      *)

FnInit ==
    /\ pc = "fn_call"
    /\ ollama \in BOOLEAN
    /\ files \in SUBSET ListingFiles
    /\ pkg \in IF "package.json" \in files THEN Manifests ELSE {NoManifest}
    /\ arg \in AllTags
    /\ project_type = ""
    /\ rec = NoRec
    /\ platform = ""
    /\ trace = <<>>
    /\ gates = [s \in Stages |-> "notrun"]
    /\ cmds = <<>>
    /\ prompts = <<>>
    /\ git_calls = <<>>
    /\ created = {}
    /\ via = [detect |-> "", rec |-> ""]
    /\ success = FALSE
    /\ exit_status = -1
    /\ stdout = <<>>
    /\ live_urls = <<>>
    /\ observed = <<>>
    /\ retval = ""
    /\ netlify = NoNetlify

\* detect_project_type() when the try block of lines 25-44 did not return;
\* it may be called a second time in the same directory
FnDetect ==
    /\ pc \in {"fn_call", "fn_detected"}
    /\ \E resp \in DetectResponses :
         /\ ~(ollama /\ resp.ok)
         /\ project_type' = detect_project_type(ollama, resp, files, pkg)
    /\ pc' = IF pc = "fn_call" THEN "fn_detected" ELSE "fn_detected_again"
    /\ UNCHANGED <<ollama, files, pkg, arg, rec, platform, trace, gates, cmds, prompts,
                   git_calls, created, via, success, exit_status,
                   stdout, live_urls, netlify,
                   observed, retval>>

\* recommend_platform(arg) when the try block of lines 20-37 did not return
FnRecommend ==
    /\ pc \in {"fn_call", "fn_detected"}
    /\ \E resp \in RecResponses :
         /\ ~(ollama /\ resp.kind # "none")
         /\ rec' = recommend_platform(ollama, resp, arg)
    /\ pc' = "fn_recommended"
    /\ UNCHANGED <<ollama, files, pkg, arg, project_type, platform, trace, gates, cmds,
                   prompts, git_calls, created, via, success, exit_status,
                   stdout, live_urls, netlify,
                   observed, retval>>

FnNext == FnDetect \/ FnRecommend

FnSpec == FnInit /\ [][FnNext]_vars

-----------------------------------------------------------------------------
(* Direct calls of the deployment adapters, core/deployer.py: the call of    *)
(* main.py lines 161-164 for a platform, a project type and a directory.     *)

\* the project directories an adapter is called in
AdDirectories ==
    {{}, {"app.py"}, {"app.py", "api", "api/index.py"}, {"dist"},
     {"build", "docs"}, {"out", "requirements.txt"}, {"docs"}}

AdCalls ==
    {[platform |-> p, project_type |-> t, files |-> fs, netlify |-> NoNetlify] :
        p \in (AIPlatforms \cup PAID_PLATFORMS) \ {"Netlify"},
        t \in {"react", "python-flask"}, fs \in AdDirectories}
    \cup {[platform |-> "Netlify", project_type |-> t, files |-> {}, netlify |-> n] :
            t \in {"react", "python-flask"}, n \in NetlifyEnvs}

\* what a deploy command may print: up to MaxOutputLines lines
Outputs == UNION {[1..n -> OutputLines] : n \in 0..MaxOutputLines}

AdInit ==
    /\ pc = "ad_call"
    /\ ollama = FALSE
    /\ \E c \in AdCalls :
         /\ platform = c.platform
         /\ project_type = c.project_type
         /\ files = c.files
         /\ netlify = c.netlify
    /\ pkg = NoManifest
    /\ arg = "unknown"
    /\ rec = NoRec
    /\ trace = <<>>
    /\ gates = [s \in Stages |-> "notrun"]
    /\ cmds = <<>>
    /\ prompts = <<>>
    /\ git_calls = <<>>
    /\ created = {}
    /\ via = [detect |-> "", rec |-> ""]
    /\ success = FALSE
    /\ exit_status = -1
    /\ stdout = <<>>
    /\ live_urls = <<>>
    /\ observed = <<>>
    /\ retval = ""

\* the adapter returns ok to main.py lines 162 / 164
AdapterReturn(ok) ==
    /\ success' = ok
    /\ pc' = "ad_done"

\* lines 460-485, and the adapters that run no command (lines 342-361, 387-404)
DeployToPlatform ==
    /\ pc = "ad_call"
    /\ trace' = Append(trace, "deploy")
    /\ LET a == Adapter(project_type, platform)
       IN IF a \in {"deploy_to_vercel", "deploy_to_vercel_flask"}
          THEN pc' = "vercel_whoami" /\ UNCHANGED <<files, success>>
          ELSE IF a = "deploy_to_netlify"
          THEN pc' = "netlify_gate" /\ UNCHANGED <<files, success>>
          ELSE IF a = "deploy_to_cloudflare_pages"
          THEN pc' = "cloudflare_deploy" /\ UNCHANGED <<files, success>>
          ELSE IF a = "deploy_to_github_pages"
          THEN files' = deploy_to_github_pages(files) /\ AdapterReturn(TRUE)
          ELSE IF a = "deploy_to_render"
          THEN UNCHANGED files /\ AdapterReturn(TRUE)
          ELSE UNCHANGED files /\ AdapterReturn(FALSE)
    /\ UNCHANGED <<ollama, pkg, arg, project_type, rec, platform, gates, cmds, prompts,
                   git_calls, created, via, exit_status, stdout, live_urls, netlify,
                   observed, retval>>

\* lines 317-318 and 409-410: a timeout is caught at lines 335 / 453
DeployVercelWhoami ==
    /\ pc = "vercel_whoami"
    /\ cmds' = Append(cmds, VercelWhoami)
    /\ \E outcome \in CmdOutcomes :
         IF outcome = "ok" THEN pc' = "vercel_deploy" /\ UNCHANGED success
         ELSE IF outcome = "fail" THEN pc' = "vercel_login_prompt" /\ UNCHANGED success
         ELSE AdapterReturn(FALSE)
    /\ UNCHANGED <<ollama, files, pkg, arg, project_type, rec, platform, trace, gates,
                   prompts, git_calls, created, via, exit_status, stdout, live_urls,
                   netlify,
                   observed, retval>>

\* lines 319 and 411
DeployVercelLoginPrompt ==
    /\ pc = "vercel_login_prompt"
    /\ \E answer \in {"y", "n"} :
         /\ prompts' = Append(prompts, <<"Log in to Vercel now?", answer>>)
         /\ pc' = IF answer = "y" THEN "vercel_login" ELSE "vercel_deploy"
    /\ UNCHANGED <<ollama, files, pkg, arg, project_type, rec, platform, trace, gates,
                   cmds, git_calls, created, via, success, exit_status, stdout,
                   live_urls, netlify,
                   observed, retval>>

\* lines 320-321 and 412-413, vercel_login (lines 39-55)
DeployVercelLogin ==
    /\ pc = "vercel_login"
    /\ cmds' = Append(cmds, VercelLoginCmd)
    /\ \E outcome \in CmdOutcomes :
         /\ observed' = Append(observed, Returned(VercelLoginCmd, outcome = "ok"))
         /\ IF outcome = "ok" THEN pc' = "vercel_deploy" /\ UNCHANGED success
            ELSE AdapterReturn(FALSE)
    /\ UNCHANGED <<ollama, files, pkg, arg, project_type, rec, platform, trace, gates,
                   prompts, git_calls, created, via, exit_status, stdout, live_urls,
                   netlify, retval>>

\* lines 324-340 and 415-458: the deploy command and the report of its URL
DeployVercelRun ==
    /\ pc = "vercel_deploy"
    /\ files' = IF Adapter(project_type, platform) = "deploy_to_vercel_flask"
                THEN vercel_flask_files(files) ELSE files
    /\ created' = created \cup (files' \ files)
    /\ cmds' = Append(cmds, VercelDeployCmd)
    /\ \E outcome \in CmdOutcomes, out \in Outputs :
         /\ outcome = "timeout" => out = <<>>
         /\ stdout' = out
         /\ live_urls' = IF outcome = "ok" THEN vercel_live_urls(out) ELSE <<>>
         /\ observed' = Append(observed, Ran(VercelDeployCmd, outcome, FALSE, FALSE))
         /\ AdapterReturn(outcome = "ok")
    /\ UNCHANGED <<ollama, pkg, arg, project_type, rec, platform, trace, gates, prompts,
                   git_calls, via, exit_status, netlify, retval>>

\* lines 363-385
DeployCloudflareRun ==
    /\ pc = "cloudflare_deploy"
    /\ cmds' = Append(cmds, <<"wrangler", "pages", "deploy", build_folder(files, ".")>>)
    /\ \E outcome \in CmdOutcomes, out \in Outputs :
         /\ outcome = "timeout" => out = <<>>
         /\ stdout' = out
         /\ live_urls' = IF outcome = "ok" THEN cloudflare_live_urls(out) ELSE <<>>
         /\ observed' = Append(observed,
                               Ran(<<"wrangler", "pages", "deploy", build_folder(files, ".")>>,
                                   outcome, FALSE, FALSE))
         /\ AdapterReturn(outcome = "ok")
    /\ UNCHANGED <<ollama, files, pkg, arg, project_type, rec, platform, trace, gates,
                   prompts, git_calls, created, via, exit_status, netlify, retval>>

\* lines 244-246 and netlify_init_gate, lines 164-174
DeployNetlifyGate ==
    /\ pc = "netlify_gate"
    /\ \E s1 \in StatusOutcomes, s2 \in StatusOutcomes :
         LET r == netlify_init_check(netlify, s1, s2)
         IN /\ cmds' = cmds \o r.cmds
            /\ netlify' = r.env
            /\ observed' = IF ~r.verified THEN observed
                           ELSE Append(observed, Returned(NetlifyInitGate, r.passed))
            /\ IF ~r.verified THEN pc' = "netlify_gate_prompt" /\ UNCHANGED success
               ELSE IF r.passed THEN pc' = "netlify_deploy" /\ UNCHANGED success
               ELSE AdapterReturn(FALSE)
    /\ UNCHANGED <<ollama, files, pkg, arg, project_type, rec, platform, trace, gates,
                   prompts, git_calls, created, via, exit_status, stdout, live_urls, retval>>

\* netlify_init_gate, lines 175-235: the user is asked to run netlify init or
\* netlify link and to press ENTER; state.json may be there afterwards
DeployNetlifyGatePrompt ==
    /\ pc = "netlify_gate_prompt"
    /\ prompts' = Append(prompts, <<"press ENTER to continue with deployment...", "">>)
    /\ \E sj \in {netlify.state_json, "noid", "id"},
          s1 \in StatusOutcomes, s2 \in StatusOutcomes :
         LET r == netlify_init_check([netlify EXCEPT !.state_json = sj], s1, s2)
         IN /\ cmds' = cmds \o r.cmds
            /\ netlify' = r.env
            /\ observed' = Append(observed, Returned(NetlifyInitGate,
                                                     r.verified /\ r.passed))
            /\ IF r.verified /\ r.passed THEN pc' = "netlify_deploy" /\ UNCHANGED success
               ELSE AdapterReturn(FALSE)
    /\ UNCHANGED <<ollama, files, pkg, arg, project_type, rec, platform, trace, gates,
                   git_calls, created, via, exit_status, stdout, live_urls, retval>>

NetlifyDeployCmd(site) == <<"netlify", "deploy", "--prod", "--site", site>>

\* lines 250-312: site id and token, the deploy command, the report of its
\* URL lines and the status command, whose failure is ignored
DeployNetlifyRun ==
    /\ pc = "netlify_deploy"
    /\ \E s3 \in StatusOutcomes, outcome \in CmdOutcomes, out \in Outputs :
         LET d == get_netlify_site_id(netlify, s3)
         IN IF ~netlify_ready(d.id, netlify.token)
            THEN /\ cmds' = cmds \o d.cmds
                 /\ UNCHANGED <<stdout, live_urls, observed>>
                 /\ AdapterReturn(FALSE)
            ELSE /\ outcome = "timeout" => out = <<>>
                 /\ cmds' = cmds \o d.cmds \o <<NetlifyDeployCmd(d.id)>>
                            \o (IF outcome = "ok" THEN <<NetlifyStatus>> ELSE <<>>)
                 /\ stdout' = out
                 /\ live_urls' = IF outcome = "ok" THEN netlify_live_urls(out) ELSE <<>>
                 /\ observed' = Append(observed, Ran(NetlifyDeployCmd(d.id), outcome,
                                                     FALSE, FALSE))
                 /\ AdapterReturn(outcome = "ok")
    /\ UNCHANGED <<ollama, files, pkg, arg, project_type, rec, platform, trace, gates,
                   prompts, git_calls, created, via, exit_status, netlify, retval>>

AdNext ==
    \/ DeployToPlatform
    \/ DeployVercelWhoami \/ DeployVercelLoginPrompt \/ DeployVercelLogin
    \/ DeployVercelRun \/ DeployCloudflareRun
    \/ DeployNetlifyGate \/ DeployNetlifyGatePrompt \/ DeployNetlifyRun

AdapterSpec == AdInit /\ [][AdNext]_vars

-----------------------------------------------------------------------------
(* Direct calls of any one stage that runs commands: install_cli,            *)
(* build_project or a deployment adapter                                     *)

StageInit == GateInit \/ AdInit

StageNext == GateNext \/ AdNext

StageSpec == StageInit /\ [][StageNext]_vars

-----------------------------------------------------------------------------
(* Properties *)

Range(seq) == {seq[i] : i \in DOMAIN seq}

Count(seq, x) == Cardinality({i \in DOMAIN seq : seq[i] = x})

Last(seq) == IF seq = <<>> THEN "" ELSE seq[Len(seq)]

Declined == <<"proceed?", "no">> \in Range(prompts)

HardGates == {"install_cli", "create_required_files", "ensure_git_ready", "build_project"}

\* C1 as claimed: a deployment adapter is invoked only if every gate that ran
\* before it passed, init_git_repo and the auto-commit/push step included.
C1_AdapterOnlyAfterEveryGatePassed ==
    "deploy" \in Range(trace) => \A s \in Stages : gates[s] # "failed"

\* C1 as amended: a deployment adapter is invoked only if install_cli,
\* create_required_files, ensure_git_ready_for_deployment and build_project
\* each returned true.
C1_AdapterOnlyAfterHardGatesPassed ==
    "deploy" \in Range(trace) => \A s \in HardGates : gates[s] = "passed"

C1_Witness ==
    /\ Last(trace) = "deploy"
    /\ gates["init_git_repo"] = "failed"
    /\ gates["auto_commit"] = "failed"
    /\ gates["build_project"] = "passed"

\* the stages of the trace that have a rank under r are in increasing rank
InRankOrder(r) ==
    \A i, j \in DOMAIN trace :
        (i < j /\ trace[i] \in DOMAIN r /\ trace[j] \in DOMAIN r)
            => r[trace[i]] < r[trace[j]]

\* when a stage begins, the result of every gate begun before it is recorded,
\* and the toolchain gate begins with the consent check answered
OutcomesKnown ==
    /\ \A i \in DOMAIN trace :
         (i < Len(trace) /\ trace[i] \in Stages) => gates[trace[i]] # "notrun"
    /\ "install_cli" \in Range(trace) =>
         \/ platform \notin PAID_PLATFORMS
         \/ <<"proceed?", "yes">> \in Range(prompts)
         \/ Declined

ClaimedOrder ==
    ("install_cli" :> 1) @@ ("consent" :> 2) @@ ("ensure_git_ready" :> 3)
    @@ ("build_project" :> 4) @@ ("deploy" :> 5)

CodeOrder ==
    ("consent" :> 1) @@ ("install_cli" :> 2) @@ ("ensure_git_ready" :> 3)
    @@ ("build_project" :> 4) @@ ("deploy" :> 5)

\* C2 as claimed: the stages run in the order tool availability, paid-platform
\* consent, git readiness, build, deployment adapter, each after the outcome
\* of the one before it is known.
C2_ToolchainThenConsentOrder == InRankOrder(ClaimedOrder) /\ OutcomesKnown

\* C2 as amended: the stages run in the order paid-platform consent, tool
\* availability, git readiness, build, deployment adapter, each after the
\* outcome of the one before it is known.
C2_ConsentThenToolchainOrder == InRankOrder(CodeOrder) /\ OutcomesKnown

C2_Witness ==
    /\ pc = "report"
    /\ Declined
    /\ platform = "GitHub Pages"
    /\ project_type = "react"

\* C3: after a decline recommend_platform is called exactly once more and the
\* consent check is not repeated; a run calls recommend_platform at most
\* twice and the consent check at most once.
C3_OneReRecommendation ==
    /\ Count(trace, "recommend") <= 2
    /\ Count(trace, "consent") <= 1
    /\ Count(prompts, <<"proceed?", "no">>) <= 1
    /\ (Declined /\ pc # "rerecommend") => Count(trace, "recommend") = 2
    /\ ~Declined => Count(trace, "recommend") <= 1

C3_Witness ==
    /\ Declined
    /\ pc = "install_cli"
    /\ platform \in PAID_PLATFORMS
    /\ Count(trace, "recommend") = 2

BuildPositions ==
    {"build", "build_node_prompt", "build_deps", "build_run", "build_fix_prompt",
     "build_fix_install", "build_retry"}

\* C4: one call of build_project runs the build command at most twice, and a
\* second run follows a dependency installation and ends the stage.
C4_AtMostOneBuildRetry ==
    /\ Count(cmds, NpmRunBuild) <= 2
    /\ Count(cmds, NpmRunBuild) = 2 =>
         /\ pc \notin BuildPositions
         /\ \E k \in DOMAIN cmds :
              /\ k > 1
              /\ cmds[k] = NpmRunBuild
              /\ cmds[k - 1] = NpmInstall
              /\ \E h \in 1..(k - 2) : cmds[h] = NpmRunBuild

C4_Witness ==
    /\ Count(cmds, NpmRunBuild) = 2
    /\ gates["build_project"] = "failed"

ConsentedInstall == <<"install automatically?", "y">> \in Range(prompts)

\* C5: when the version probe fails, the tool is auto-installable and the
\* user consents, install_cli runs the install command once, then the version
\* probe once more, and returns the result of that second probe.
C5_InstallThenReprobe ==
    (ConsentedInstall /\ Last(trace) = "install_cli" /\ gates["install_cli"] # "notrun")
        => /\ Count(cmds, InstallCmd(platform)) = 1
           /\ Count(cmds, ProbeCmd(platform)) = 2
           /\ Last(cmds) = ProbeCmd(platform)

HardFailure ==
    \/ project_type = "unknown"
    \/ \E s \in HardGates : gates[s] = "failed"
    \/ "deploy" \in Range(trace) /\ ~success

\* C6: the exit status of the process is 0 after a successful deployment and
\* nonzero after a hard gate failure or a failed deployment.
C6_ExitStatusReportsOutcome ==
    pc = "exited" => /\ success => exit_status = 0
                     /\ HardFailure => exit_status # 0

\* C7: when the project type is unknown the run halts after the detection: no
\* recommendation, consent check, gate, build or adapter runs, no external
\* command is run and no file is created.
C7_UnknownHaltsBeforeAnyGate ==
    (pc # "detect" /\ project_type = "unknown")
        => /\ pc \in {"returned", "exited"}
           /\ trace = <<"detect">>
           /\ cmds = <<>>
           /\ git_calls = <<>>
           /\ created = {}
           /\ \A s \in Stages : gates[s] = "notrun"

C7_Witness ==
    /\ pc = "exited"
    /\ project_type = "unknown"
    /\ "package.json" \in files

\* C10: the project type main() works with is one of nextjs, vite, react,
\* static, python-flask, unknown, on the AI-assisted path and on the fallback.
C10_ProjectTypeInEnumeration ==
    pc # "detect" => project_type \in ProjectTypes

\* the manifest is present and parses
ManifestRead == "package.json" \in files /\ pkg.ok

\* C8: the deterministic detection returns nextjs if the manifest's
\* dependencies contain next, else vite if its devDependencies contain vite,
\* else react if its dependencies contain react, else static if index.html is
\* present, else python-flask if requirements.txt is present, else unknown;
\* an unparseable manifest counts as one with no marker.
C8_FallbackDetectionPriority ==
    pc = "fn_detected" =>
        project_type =
            CASE ManifestRead /\ "next" \in pkg.dependencies -> "nextjs"
              [] ManifestRead /\ "next" \notin pkg.dependencies
                 /\ "vite" \in pkg.devDependencies -> "vite"
              [] ManifestRead /\ "next" \notin pkg.dependencies
                 /\ "vite" \notin pkg.devDependencies
                 /\ "react" \in pkg.dependencies -> "react"
              [] OTHER -> IF "index.html" \in files THEN "static"
                          ELSE IF "requirements.txt" \in files THEN "python-flask"
                          ELSE "unknown"

C8_Witness ==
    /\ pc = "fn_detected"
    /\ project_type = "vite"
    /\ pkg.dependencies = {"react"}
    /\ pkg.devDependencies = {"next", "vite"}
    /\ files = ListingFiles

\* C9: the deterministic recommendation is total: for every tag it has a
\* non-empty platform, a non-empty reason and a non-empty sequence of setup
\* steps, and a tag with no table entry gets Vercel.
C9_FallbackRecommendationTotal ==
    pc = "fn_recommended" =>
        /\ rec.has_keys
        /\ rec.platform # ""
        /\ rec.reason # ""
        /\ Len(rec.setup_steps) > 0
        /\ \A k \in DOMAIN rec.setup_steps : rec.setup_steps[k] # ""
        /\ arg \notin {"nextjs", "vite", "react", "static", "python-flask"}
             => rec.platform = "Vercel"

C9_Witness ==
    /\ pc = "fn_recommended"
    /\ arg = OtherTag
    /\ rec.platform = "Vercel"
    /\ Len(rec.setup_steps) = 3

\* C11: every recommendation main() gets from recommend_platform, on the
\* AI-assisted path and on the fallback path, has the keys platform, reason
\* and setup_steps, with a platform among Netlify, Vercel, GitHub Pages,
\* Cloudflare Pages, Render, a reason and a non-empty sequence of steps.
C11_RecommendationWellFormed ==
    "recommend" \in Range(trace) =>
        /\ rec.has_keys
        /\ rec.platform \in SupportedPlatforms
        /\ rec.reason # ""
        /\ Len(rec.setup_steps) > 0

\* C12: when the AI-assisted path of detect_project_type or recommend_platform
\* fails (no backend, exception, timeout, non-JSON, JSON without the expected
\* fields) the call returns the result of the deterministic fallback, and no
\* exception ends the run.
C12_AiFailureFallsBack ==
    /\ pc # "raised"
    /\ (pc # "detect" /\ via.detect = "fallback")
         => project_type = detect_fallback(files \ created, pkg)
    /\ ("recommend" \in Range(trace) /\ via.rec = "fallback")
         => rec = [has_keys |-> TRUE] @@ recommend_fallback(project_type)
    /\ "recommend" \in Range(trace) => rec.has_keys

Stripped(printed, line) ==
    /\ printed # <<>>
    /\ printed[1] # " "
    /\ printed[Len(printed)] # " "
    /\ \E lo \in DOMAIN line, hi \in DOMAIN line :
         /\ printed = SubSeq(line, lo, hi)
         /\ \A j \in DOMAIN line : (j < lo \/ j > hi) => line[j] = " "

\* line matches the URL pattern of the adapter of the platform, and printed
\* is what the adapter prints for it
ReportedFrom(printed, line) ==
    CASE platform = "Vercel" -> line[1] \in UrlTokens /\ Stripped(printed, line)
      [] platform = "Cloudflare Pages" ->
             /\ \E i \in DOMAIN line : line[i] \in UrlTokens
             /\ \E i \in DOMAIN line : line[i] \in CloudflareTokens
             /\ Stripped(printed, line)
      [] platform = "Netlify" ->
             /\ \E i \in DOMAIN line : line[i] \in LiveUrlLabels
             /\ printed = line
      [] OTHER -> FALSE

C15_NoBuildStepNoEffect ==
    [][(pc = "build" /\ project_type \notin {"nextjs", "vite", "react"})
         => (/\ pc' = "deploy"
             /\ gates'["build_project"] = "passed"
             /\ cmds' = cmds
             /\ prompts' = prompts
             /\ files' = files
             /\ created' = created
             /\ git_calls' = git_calls)]_vars

C15_Witness ==
    /\ pc = "deploy"
    /\ project_type = "static"
    /\ files = {"index.html"}
    /\ platform = "GitHub Pages"
    /\ gates["build_project"] = "passed"

\* the version probe of a platform CLI
IsCliProbe(c) ==
    /\ Len(c) = 2
    /\ c[2] = "--version"
    /\ c[1] \in {"netlify", "vercel", "wrangler", "git"}

\* C16: on the deterministic path a manifest that declares next gives nextjs,
\* Vercel, and `vercel --version` as the first external command; in every run
\* a CLI version probe is the probe of the CLI of the selected platform, and
\* it is the first command of a run that reaches the adapter of a platform
\* with a CLI.
C16_ProbedCliIsOfSelectedPlatform ==
    /\ \A k \in DOMAIN cmds :
         IsCliProbe(cmds[k]) =>
            /\ platform \in DOMAIN CLI_MAP
            /\ cmds[k][1] = CLI_MAP[platform].cmd
    /\ ("deploy" \in Range(trace) /\ platform \in DOMAIN CLI_MAP)
         => cmds # <<>> /\ cmds[1] = <<CLI_MAP[platform].cmd, "--version">>
    /\ (/\ via.detect = "fallback"
        /\ "package.json" \in files \ created
        /\ pkg.ok
        /\ "next" \in pkg.dependencies)
         => /\ project_type = "nextjs"
            /\ ("recommend" \in Range(trace) /\ via.rec = "fallback")
                 => platform = "Vercel"
            /\ (via.rec = "fallback" /\ cmds # <<>>)
                 => cmds[1] = <<"vercel", "--version">>

C16_Witness ==
    /\ pc = "deploy"
    /\ ~ollama
    /\ project_type = "nextjs"
    /\ platform = "Vercel"
    /\ "vite" \in pkg.devDependencies
    /\ cmds[1] = <<"vercel", "--version">>
    /\ Len(cmds) > 1


\* the git_handler functions that change the repository or the remote
VcsOperations == {"init_git_repo", "git_add_and_commit", "git_push_to_remote"}

\* the platform is the one the run deploys to
PlatformSelected == "install_cli" \in Range(trace)

\* C17 as claimed: a run whose selected platform is not GitHub Pages or Render
\* performs no repository initialisation, commit or push.
C17_NoGitOperationForOtherPlatforms ==
    (PlatformSelected /\ platform \notin {"GitHub Pages", "Render"})
        => \A k \in DOMAIN git_calls : git_calls[k][1] \notin VcsOperations

\* C17 as amended: for a selected platform other than GitHub Pages and Render
\* the readiness gate calls no git function and passes, and no result of a
\* version-control operation halts the run: once init_git_repo was called,
\* the run reaches build_project.
C17_GitGateOnlyForGitPlatforms ==
    (PlatformSelected /\ platform \notin {"GitHub Pages", "Render"})
        => /\ gates["ensure_git_ready"] # "failed"
           /\ pc = "auto_commit" =>
                /\ Len(git_calls) = 1
                /\ git_calls[1][1] = "init_git_repo"
           /\ (pc \in {"returned", "exited"} /\ "init_git_repo" \in Range(trace))
                => "build_project" \in Range(trace)

C17_Witness ==
    /\ pc = "deploy"
    /\ platform = "Vercel"
    /\ gates["init_git_repo"] = "failed"
    /\ <<"git_add_and_commit", FALSE>> \in Range(git_calls)
    /\ <<"git_push_to_remote", FALSE>> \in Range(git_calls)

\* C18: after a push to the remote was attempted and failed, neither
\* build_project nor a deployment adapter is executed.
C18_PushFailureHalts ==
    <<"git_push_to_remote", FALSE>> \in Range(git_calls)
        => /\ "build_project" \notin Range(trace)
           /\ "deploy" \notin Range(trace)

\* the first call of get_git_remote_url answered that no remote is configured
FirstRemoteCheckFailed ==
    \E k \in DOMAIN git_calls :
        /\ git_calls[k] = <<"get_git_remote_url", FALSE>>
        /\ \A j \in 1..(k - 1) : git_calls[j][1] # "get_git_remote_url"

\* C19: for GitHub Pages and Render, when the repository has no configured
\* remote, ensure_git_ready_for_deployment fails and the run halts before any
\* commit, push, build or deployment adapter.
C19_NoRemoteHalts ==
    (platform \in {"GitHub Pages", "Render"} /\ FirstRemoteCheckFailed)
        => /\ gates["ensure_git_ready"] = "failed"
           /\ pc \in {"returned", "exited"}
           /\ \A k \in DOMAIN git_calls :
                git_calls[k][1] \notin {"git_add_and_commit", "git_push_to_remote"}
           /\ "build_project" \notin Range(trace)
           /\ "deploy" \notin Range(trace)

C19_Witness ==
    /\ pc = "exited"
    /\ platform = "GitHub Pages"
    /\ git_calls = << <<"init_git_repo", FALSE>>, <<"is_git_repo", FALSE>>,
                      <<"init_git_repo", TRUE>>, <<"get_git_remote_url", FALSE>> >>

\* the whoami probe reported that no user is logged in
Unauthenticated == \E answer \in {"y", "n"} :
    <<"Log in to Vercel now?", answer>> \in Range(prompts)

\* C20: in the Vercel adapters, when the whoami probe reports unauthenticated,
\* the login is run at most once and whoami is run again before the deploy
\* command.
C20_LoginOnceThenRecheck ==
    /\ Count(cmds, VercelLoginCmd) <= 1
    /\ (Unauthenticated /\ VercelDeployCmd \in Range(cmds))
         => \E k \in DOMAIN cmds :
              /\ k > 1
              /\ cmds[k] = VercelWhoami
              /\ \E j \in (k + 1)..Len(cmds) : cmds[j] = VercelDeployCmd

-----------------------------------------------------------------------------
(* C21 *)

\* C21: an exception raised by a lower-level component during a run is caught
\* at the boundary of the orchestrator; it never leaves the entry point the
\* run was started through, the console script included
C21_NoExceptionLeavesEntryPoint == pc # "propagated"

-----------------------------------------------------------------------------
(* C22 *)

IsNetlifyDeploy(c) == Len(c) = 5 /\ c[1] = "netlify" /\ c[2] = "deploy"

NetlifyDeployRan == \E i \in DOMAIN cmds : IsNetlifyDeploy(cmds[i])

NetlifyGatePassed == Returned(NetlifyInitGate, TRUE) \in Range(observed)

\* C22: deploy_to_netlify runs the netlify deploy command only after
\* netlify_init_gate passed, with a site id and with NETLIFY_AUTH_TOKEN set;
\* when it returns without these it returns failure and the deploy command
\* was not run
C22_NetlifyDeployNeedsGateSiteAndToken ==
    /\ \A i \in DOMAIN cmds :
         IsNetlifyDeploy(cmds[i])
            => NetlifyGatePassed /\ cmds[i][5] # "" /\ netlify.token
    /\ (pc = "ad_done" /\ Adapter(project_type, platform) = "deploy_to_netlify"
        /\ ~(NetlifyGatePassed /\ netlify.token))
          => ~success /\ ~NetlifyDeployRan

\* the gate passed and the credential is missing: failure, nothing deployed
C22_Witness ==
    /\ pc = "ad_done"
    /\ Adapter(project_type, platform) = "deploy_to_netlify"
    /\ NetlifyGatePassed
    /\ ~netlify.token
    /\ ~success
    /\ ~NetlifyDeployRan

-----------------------------------------------------------------------------
(* C23 *)

\* C23: the adapters that run no deploy CLI, deploy_to_github_pages and
\* deploy_to_render, return success whatever the project directory holds (a
\* build output dist, build or out or none, docs or no docs), and run no command
C23_NoCliAdaptersSucceed ==
    (pc = "ad_done" /\ platform \in {"GitHub Pages", "Render"})
       => success /\ cmds = <<>>

\* GitHub Pages in a directory with a build output and docs: nothing is moved
C23_Witness ==
    /\ pc = "ad_done"
    /\ platform = "GitHub Pages"
    /\ build_folder(files, "") # ""
    /\ "docs" \in files
    /\ success

-----------------------------------------------------------------------------
(* C24, C25, C26: install_cli *)

\* the platforms config.py lines 65-71 give no CLI
NoCliPlatforms ==
    AIPlatforms \ {"Netlify", "Vercel", "Cloudflare Pages", "GitHub Pages"}

InstallCliCalled == "install_cli" \in Range(trace)

\* C24: for a platform with no entry in the CLI map install_cli returns true
\* at once: it runs no version probe and no install command and asks nothing
C24_NoCliNeededPassesAtOnce ==
    (InstallCliCalled /\ platform \in NoCliPlatforms)
       => /\ gates["install_cli"] = "passed"
          /\ pc = AfterStage("install_cli")
          /\ cmds = <<>>
          /\ observed = <<>>
          /\ prompts = <<>>

C24_Witness ==
    /\ InstallCliCalled
    /\ platform = "Render"
    /\ gates["install_cli"] = "passed"
    /\ cmds = <<>>

Probes == Count(cmds, <<CLI_MAP[platform].cmd, "--version">>)

Installs == Count(cmds, <<CLI_MAP[platform].install>>)

CliDeclinedByUser == <<"install automatically?", "n">> \in Range(prompts)

\* C25: one call of install_cli runs the version probe at most twice and the
\* install command at most once; when the user declines the automatic
\* installation it fails with one probe and no install command run
C25_ProbeTwiceInstallOnceAtMost ==
    (InstallCliCalled /\ platform \in DOMAIN CLI_MAP)
       => /\ Probes <= 2
          /\ Installs <= 1
          /\ CliDeclinedByUser
                => /\ gates["install_cli"] = "failed"
                   /\ pc = "returned"
                   /\ Probes = 1
                   /\ Installs = 0

C25_Witness ==
    /\ InstallCliCalled
    /\ CliDeclinedByUser
    /\ gates["install_cli"] = "failed"
    /\ Probes = 1

Acknowledgments ==
    Len(SelectSeq(prompts, LAMBDA q : q[1] = "Press Enter after installing..."))

\* install_cli was called for a tool the user installs by hand, and the
\* first probe did not find it
ManualPath ==
    /\ InstallCliCalled
    /\ platform \in DOMAIN CLI_MAP
    /\ ~CLI_MAP[platform].auto_install
    /\ observed # <<>>
    /\ ~observed[1].ok

\* C26: for a tool that is not auto-installable and whose first probe fails,
\* install_cli takes one acknowledgment, probes once more and returns what
\* that probe found; it runs no install command
C26_ManualInstallReprobedOnce ==
    ManualPath
       => /\ Installs = 0
          /\ Len(prompts) = Acknowledgments
          /\ IF pc = "cli_manual"
             THEN Probes = 1 /\ Acknowledgments = 0 /\ gates["install_cli"] = "notrun"
             ELSE /\ Acknowledgments = 1
                  /\ Probes = 2
                  /\ Len(observed) = 2
                  /\ observed[2].cmd = <<CLI_MAP[platform].cmd, "--version">>
                  /\ gates["install_cli"] = Result(observed[2].ok)
                  /\ pc = IF observed[2].ok THEN AfterStage("install_cli")
                          ELSE "returned"

\* the tool is there at the second probe
C26_Witness ==
    /\ ManualPath
    /\ Acknowledgments = 1
    /\ Probes = 2
    /\ observed[2].ok
    /\ gates["install_cli"] = "passed"

-----------------------------------------------------------------------------
(* C27, C28, C29, C30: build_project *)

\* the runs of `npm run build` with what each gave, in order
BuildsSeen == SelectSeq(observed, LAMBDA e : e.cmd = NpmRunBuild)

RemediesOffered ==
    Len(SelectSeq(prompts, LAMBDA q : q[1] = "Install dependencies now?"))

BuildStageOver == gates["build_project"] # "notrun" /\ pc \notin BuildPositions

\* C27: when the build command exits nonzero with the 'missing script'
\* signature in its output, build_project returns true with no remediation
\* prompt, no dependency installation and no retry, also when the 'tool not
\* found' signature is in the same output
C27_MissingScriptPasses ==
    (BuildsSeen # <<>> /\ ~BuildsSeen[1].ok /\ BuildsSeen[1].missing_script)
       => /\ gates["build_project"] = "passed"
          /\ pc = AfterStage("build")
          /\ Len(BuildsSeen) = 1
          /\ observed[Len(observed)].cmd = NpmRunBuild
          /\ cmds[Len(cmds)] = NpmRunBuild
          /\ RemediesOffered = 0

\* both signatures in the output of the failed build
C27_Witness ==
    /\ BuildsSeen # <<>>
    /\ ~BuildsSeen[1].ok
    /\ BuildsSeen[1].missing_script
    /\ BuildsSeen[1].not_found
    /\ gates["build_project"] = "passed"

Rechecked == <<"Check again after install?", "y">> \in Range(prompts)

\* the last thing build_project did was to find npm, after node
ToolchainFoundLast ==
    /\ observed # <<>>
    /\ observed[Len(observed)] = Saw(<<"npm", "--version">>, "ok", FALSE, FALSE)

\* C28: build_project checks the toolchain at most twice, the second time on
\* the user's request; it fails at this point only if the toolchain is still
\* absent at the last check, and goes on to the dependency installation and
\* the build when the re-check finds node and npm
C28_RecheckFindingToolchainContinues ==
    /\ Count(cmds, <<"node", "--version">>) <= 2
    /\ (Rechecked /\ ToolchainFoundLast) => gates["build_project"] # "failed"

InstallsBeforeFirstBuild ==
    Cardinality({j \in DOMAIN observed :
                    /\ observed[j].cmd = NpmInstall
                    /\ \A h \in 1..j : observed[h].cmd # NpmRunBuild})

\* C29: when node_modules is absent npm install runs once before the first
\* build, and when it fails or times out the stage fails with the build
\* command never run; when node_modules is present nothing is installed
\* before the first build
C29_DependenciesInstalledOnceBeforeBuild ==
    \A i \in DOMAIN observed :
       observed[i].cmd = NodeModulesTest
          => IF observed[i].ok
             THEN /\ InstallsBeforeFirstBuild = 0
                  /\ i < Len(observed) => observed[i + 1].cmd = NpmRunBuild
             ELSE /\ InstallsBeforeFirstBuild = 1
                  /\ i < Len(observed)
                  /\ observed[i + 1].cmd = NpmInstall
                  /\ IF observed[i + 1].ok
                     THEN i + 1 < Len(observed) => observed[i + 2].cmd = NpmRunBuild
                     ELSE /\ gates["build_project"] = "failed"
                          /\ pc = "returned"
                          /\ Count(cmds, NpmRunBuild) = 0
                          /\ BuildsSeen = <<>>

\* node_modules absent and npm install failed: no build
C29_Witness ==
    /\ \E i \in DOMAIN observed :
         /\ observed[i] = Saw(NodeModulesTest, "fail", FALSE, FALSE)
         /\ observed[i + 1] = Saw(NpmInstall, "fail", FALSE, FALSE)
    /\ gates["build_project"] = "failed"
    /\ Count(cmds, NpmRunBuild) = 0

\* the entries of `observed` from the first build on
FromFirstBuild ==
    SelectSeq([i \in DOMAIN observed |-> [at |-> i, e |-> observed[i]]],
              LAMBDA x : \E h \in 1..x.at : observed[h].cmd = NpmRunBuild)

\* C30: the build is retried only if the first build exited nonzero without
\* the 'missing script' signature and with the 'tool not found' signature,
\* the user consented to the remediation and the dependency installation
\* succeeded; every other failed first build ends the stage with failure
\* after that one build, and after a retry the result of the stage is the
\* outcome of the retry
C30_RetryOnlyAfterConsentedRemedy ==
    /\ Len(BuildsSeen) <= 2
    /\ Len(BuildsSeen) = 2
          => /\ ~BuildsSeen[1].ok
             /\ ~BuildsSeen[1].missing_script
             /\ BuildsSeen[1].not_found
             /\ Range(prompts) = {<<"Install dependencies now?", "y">>}
             /\ Len(FromFirstBuild) = 3
             /\ FromFirstBuild[2].e = Saw(NpmInstall, "ok", FALSE, FALSE)
             /\ BuildStageOver
             /\ gates["build_project"] = Result(BuildsSeen[2].ok)
    /\ (BuildStageOver /\ Len(BuildsSeen) = 1 /\ ~BuildsSeen[1].ok
        /\ ~BuildsSeen[1].missing_script)
          => /\ gates["build_project"] = "failed"
             /\ Count(cmds, NpmRunBuild) = 1

\* a retry that succeeded
C30_Witness ==
    /\ Len(BuildsSeen) = 2
    /\ BuildsSeen[2].ok
    /\ gates["build_project"] = "passed"

-----------------------------------------------------------------------------
(* C31 *)

\* C31: a timeout or spawn error of the build command, first attempt or
\* retry, or of a deploy command ends its stage: the stage returns failure,
\* nothing is run after the command, and no remediation is offered for it
C31_TimeoutEndsStage ==
    \A i \in DOMAIN observed :
       observed[i].timed_out
          => /\ i = Len(observed)
             /\ cmds[Len(cmds)] = observed[i].cmd
             /\ IF observed[i].cmd = NpmRunBuild
                THEN /\ gates["build_project"] = "failed"
                     /\ pc = "returned"
                     /\ Count(cmds, NpmRunBuild) = Len(BuildsSeen)
                     /\ RemediesOffered = Len(BuildsSeen) - 1
                     /\ Len(prompts) = RemediesOffered
                ELSE /\ pc = "ad_done"
                     /\ ~success
                     /\ live_urls = <<>>
                     /\ Count(cmds, observed[i].cmd) = 1

\* the retry of the build timed out
C31_Witness ==
    /\ Len(BuildsSeen) = 2
    /\ BuildsSeen[2].timed_out
    /\ gates["build_project"] = "failed"
    /\ pc = "returned"

-----------------------------------------------------------------------------
(* C32 *)

\* .netlify/state.json exists, or NETLIFY_SITE_ID gives a site id
NetlifyInitialised == netlify.state_json # "absent" \/ netlify.env_site_id # ""

-----------------------------------------------------------------------------
(* C33 *)

SiteIdCalled == "get_netlify_site_id" \in Range(trace)

StatusGaveId == Returned(NetlifyStatus, TRUE) \in Range(observed)

\* C33: get_netlify_site_id returns the first site id found in the order
\* state.json, output of netlify status, NETLIFY_SITE_ID, and None when none
\* of the three gives one; a state file without a readable id and a failing
\* status command fall through to the next source, and nothing is raised
C33_SiteIdPriority ==
    SiteIdCalled
       => /\ pc = "helper_done"
          /\ retval = IF netlify.state_json = "id" THEN "site-from-state"
                      ELSE IF StatusGaveId THEN "site-from-status"
                      ELSE netlify.env_site_id
          /\ cmds = IF netlify.state_json = "id" THEN <<>> ELSE <<NetlifyStatus>>
          /\ retval = "" <=> /\ netlify.state_json # "id"
                             /\ ~StatusGaveId
                             /\ netlify.env_site_id = ""

\* state.json without an id, no id from netlify status: the environment
C33_Witness ==
    /\ SiteIdCalled
    /\ netlify.state_json = "noid"
    /\ cmds = <<NetlifyStatus>>
    /\ ~StatusGaveId
    /\ retval = "site-from-env"

-----------------------------------------------------------------------------
(* C38 *)

\* C38: create_required_files and create_gitignore open for writing only
\* files that do not exist, so no existing file is overwritten or removed,
\* and a second call with the same arguments after a first one that
\* succeeded writes nothing and leaves the directory unchanged
C38_ScaffoldingNeverOverwrites ==
    [][(LET new == SubSeq(observed', Len(observed) + 1, Len(observed'))
        IN /\ \A i \in DOMAIN new :
                new[i].cmd[1] = "open" => new[i].cmd[2] \notin files
           /\ files \subseteq files'
           /\ (pc = "scaffolded" \/ (pc = "ignored" /\ retval = "True"))
                 => (files' = files /\ created' = created /\ observed' = observed))]_vars

\* a second call in a directory that had a package.json of its own
C38_Witness ==
    /\ pc = "scaffolded_again"
    /\ "package.json" \in files \ created
    /\ project_type = "react"
    /\ created = {"vercel.json"}

-----------------------------------------------------------------------------
(* C34 *)

\* C34: after the user declined a paid platform, the platform the run goes
\* on with (install_cli, build, adapter) is not in the paid-platform set
C34_NoPaidPlatformAfterDecline ==
    (Declined /\ PlatformSelected) => platform \notin PAID_PLATFORMS

-----------------------------------------------------------------------------
(* C35 *)

\* the platforms config.py lines 61-62 name as paid
PaidNames == {"Fly.io", "Heroku", "Railway", "AWS", "GCP", "Azure", "DigitalOcean"}

\* the first recommendation of the run came from the fallback table
FallbackRecommended == via.rec = "fallback" /\ Count(trace, "recommend") = 1

\* C35: when the recommendation comes from the fallback table (or its
\* Vercel default) the platform is not a paid one, the paid-platform prompt
\* is not shown and there is no re-recommendation
C35_FallbackNeverAsksConsent ==
    /\ FallbackRecommended
          => /\ platform \notin PaidNames
             /\ pc \notin {"consent_prompt", "rerecommend"}
             /\ \A i \in DOMAIN prompts : prompts[i][1] # "proceed?"
    /\ ~ollama => Count(trace, "recommend") <= 1

\* the backend failed, the tag is outside the table: the Vercel default
C35_Witness ==
    /\ FallbackRecommended
    /\ ollama
    /\ project_type \notin DOMAIN RECOMMENDATIONS
    /\ platform = "Vercel"
    /\ "consent" \in Range(trace)
    /\ pc = "install_cli"

-----------------------------------------------------------------------------
(* C36 *)

\* the platforms deploy_to_platform has a branch for
FivePlatforms == {"Netlify", "Vercel", "GitHub Pages", "Cloudflare Pages", "Render"}

\* C36: for a platform outside the five supported ones deploy_to_platform
\* and deploy_to_platform_flask return failure; they run no command, ask
\* nothing and leave the directory as it is
C36_UnsupportedPlatformFails ==
    (pc = "ad_done" /\ platform \notin FivePlatforms)
       => /\ ~success
          /\ cmds = <<>>
          /\ observed = <<>>
          /\ prompts = <<>>
          /\ created = {}
          /\ live_urls = <<>>

\* a paid platform, called for a Flask project
C36_Witness ==
    /\ pc = "ad_done"
    /\ platform = "Railway"
    /\ project_type = "python-flask"
    /\ ~success
    /\ cmds = <<>>

-----------------------------------------------------------------------------
(* C37 *)

\* vercel_login() returned True
LoginSucceeded == Returned(VercelLoginCmd, TRUE) \in Range(observed)

\* C37: in the Vercel adapters, when whoami reported unauthenticated and no
\* login succeeded afterwards (the user declined, or the login failed), the
\* deploy command is never run and the adapter returns failure
C37_NoDeployWithoutLogin ==
    (Unauthenticated /\ ~LoginSucceeded)
       => /\ VercelDeployCmd \notin Range(cmds)
          /\ pc = "ad_done" => ~success

-----------------------------------------------------------------------------
(* core/model_selector.py and a whole run of main() from its first line      *)

\* AfterModelSelection with the menu shown again whatever was chosen
AfterModelSelectionLoops == "select_model"

\* where main() continues once get_model_name() returned (main.py line 82)
AfterModelSelection == "detect"

\* main() at line 69: as Init, before the model selection of lines 81-85
LiveInit ==
    /\ pc = "get_model_name"
    /\ ollama \in BOOLEAN
    /\ \E d \in RunDirectories(ollama) :
         /\ files = d.files
         /\ pkg = IF "package.json" \in d.files THEN d.pkg ELSE NoManifest
    /\ arg = "unknown"
    /\ project_type = ""
    /\ rec = NoRec
    /\ platform = ""
    /\ trace = <<>>
    /\ gates = [s \in Stages |-> "notrun"]
    /\ cmds = <<>>
    /\ prompts = <<>>
    /\ git_calls = <<>>
    /\ created = {}
    /\ via = [detect |-> "", rec |-> ""]
    /\ success = FALSE
    /\ exit_status = -1
    /\ stdout = <<>>
    /\ live_urls = <<>>
    /\ observed = <<>>
    /\ retval = ""
    /\ netlify = NoNetlify

\* model_selector.py lines 78-93 and 32-52: "n" or "no" takes the default
\* model; any other answer calls select_model_gui, which returns the default
\* without the package, asks for a name when the backend lists no model
\* (an exception of ollama.list() included), and shows the menu otherwise
GetModelName ==
    /\ pc = "get_model_name"
    /\ \E use_default \in {"n", "no", "", "y"}, models \in {"none", "some"} :
         pc' = IF use_default \in {"n", "no"} THEN AfterModelSelection
               ELSE IF ~ollama THEN AfterModelSelection
               ELSE IF models = "none" THEN "enter_model_name"
               ELSE "select_model"
    /\ UNCHANGED <<ollama, files, pkg, arg, project_type, rec, platform, trace, gates,
                   cmds, prompts, git_calls, created, via, success, exit_status,
                   stdout, live_urls, netlify, observed, retval>>

\* line 43: the name typed, or the default for an empty line
EnterModelName ==
    /\ pc = "enter_model_name"
    /\ pc' = AfterModelSelection
    /\ UNCHANGED <<ollama, files, pkg, arg, project_type, rec, platform, trace, gates,
                   cmds, prompts, git_calls, created, via, success, exit_status,
                   stdout, live_urls, netlify, observed, retval>>

\* lines 54-74, one round of the menu loop: a listed number returns that
\* model, the last number asks for a custom name, a number out of range or a
\* line that is no number asks again, an interrupt returns the default
SelectModel ==
    /\ pc = "select_model"
    /\ \E choice \in {"listed", "custom", "out_of_range", "not_a_number", "interrupt"} :
         pc' = IF choice \in {"listed", "interrupt"} THEN AfterModelSelection
               ELSE IF choice = "custom" THEN "custom_model"
               ELSE "select_model"
    /\ UNCHANGED <<ollama, files, pkg, arg, project_type, rec, platform, trace, gates,
                   cmds, prompts, git_calls, created, via, success, exit_status,
                   stdout, live_urls, netlify, observed, retval>>

\* lines 64-69: a name returns it, an empty line goes back to the menu
CustomModel ==
    /\ pc = "custom_model"
    /\ \E custom_model \in {"mistral", ""} :
         pc' = IF custom_model # "" THEN AfterModelSelection ELSE "select_model"
    /\ UNCHANGED <<ollama, files, pkg, arg, project_type, rec, platform, trace, gates,
                   cmds, prompts, git_calls, created, via, success, exit_status,
                   stdout, live_urls, netlify, observed, retval>>

LiveNext ==
    \/ GetModelName \/ EnterModelName \/ SelectModel \/ CustomModel
    \/ Next

\* a round of the menu loop that was answered with a recognised value
ModelChosen == (SelectModel \/ CustomModel) /\ pc' = AfterModelSelection

\* a round of the consent loop that was answered with a recognised value
ConsentAnswered == ConsentPrompt /\ pc' # "consent_prompt"

\* A run in which every command returns or times out and every prompt is
\* answered (the step that is due is taken), and in which the two re-prompt
\* loops are eventually given a recognised value.
LiveSpec ==
    /\ LiveInit
    /\ [][LiveNext]_vars
    /\ WF_vars(LiveNext)
    /\ WF_vars(ModelChosen)
    /\ WF_vars(ConsentAnswered)

-----------------------------------------------------------------------------
(* C39 *)

\* the process of the run has ended
Terminated == pc \in {"exited", "propagated"}

\* C39: every run of the orchestrator reaches a terminal state, provided
\* every prompt is eventually answered with a recognised value and every
\* external command returns or hits its timeout
C39_EveryRunTerminates == <>Terminated

\* a run that ended after the consent prompt was first given an
\* unrecognised answer
C39_Witness ==
    /\ Terminated
    /\ InvalidAnswers >= 1
    /\ "deploy" \in Range(trace)

=============================================================================
